---- MODULE Spec2Model ----
(***************************************************************************)
(* A model of the Lambda performance analyzer (src/src/lambda-analyzer.js) *)
(* and of the tool dispatch of the MCP server (src/unnamed/part_002).      *)
(*                                                                         *)
(* Time is counted in seconds (the source counts milliseconds; every       *)
(* duration the source uses is a whole number of seconds).  A metric value *)
(* is the mean of the returned datapoints and is kept as an exact fraction *)
(* [num, den]; a rate that the source rounds to two decimals is kept as an *)
(* integer number of hundredths (2500 is 25.00).                           *)
(***************************************************************************)
EXTENDS Integers, Sequences, FiniteSets, TLC

VARIABLES
    now,        \* the clock (Date.now()), in seconds
    call,       \* the operation last invoked, with its arguments
    telemetry,  \* what the telemetry source answered during that call
    fetches,    \* the requests that call sent to the telemetry source, in order
    outcome,    \* "none", "awaiting", "returned" or "rejected" (the promise's fate)
    result,     \* the object the call returned, or the error it was rejected with
    analyzer,   \* the fields of the server's one LambdaAnalyzer instance
    tasks,      \* the tool calls that run concurrently on it, each at some await
    objects     \* the metrics object each of them fills (getMetrics)

vars == <<now, call, telemetry, fetches, outcome, result, analyzer, tasks, objects>>

\* The state of the concurrent tool calls; a call that is followed on its own
\* leaves it alone.
concurrent == <<analyzer, tasks, objects>>

----------------------------------------------------------------------------
\* Bounds of the model.

Clock0 == 2700000          \* the clock at start (past 30 days, so no window starts before 0)
MaxClockAdvance == 1       \* the clock advances at most this much over a run
MaxElapsed == 1            \* seconds a call may spend awaiting the telemetry source
MaxEvents == 2             \* cold-start log events the log source holds for one call
MaxLaterPages == 1         \* pages of them behind the first page's continuation token
MaxPoints == 2             \* datapoints returned for one metric
MaxSum == 4                \* largest statistic value of a datapoint
MaxFunctions == 2          \* function names in one comparison
MaxSamples == 3            \* memory-usage samples of one analysis
MaxUsage == 4              \* a sample is at most this many steps of memory
UsageStep == 70            \* MB in one such step
MaxPeakEvents == 5         \* hours handed to findPeakHours when checked on its own
MaxSpread == 3             \* those hours lie within this many hours of a base hour

----------------------------------------------------------------------------
\* Generic helpers.

Min(a, b) == IF a < b THEN a ELSE b

SeqsUpTo(S, n) == UNION {[1..k -> S] : k \in 0..n}

Range(s) == {s[i] : i \in DOMAIN s}

\* Math.round(a / b) for a >= 0, b > 0: the nearest integer, halves upwards.
\* The arithmetic is exact: the rounding error of the source's doubles is not
\* modelled (it cannot change a result within the bounds used here).
MathRound(a, b) == (2 * a + b) \div (2 * b)

\* An exact fraction num/den, den > 0.
Frac(n, d) == [num |-> n, den |-> d]
Zero == Frac(0, 1)

----------------------------------------------------------------------------
\* The telemetry source's answers.

FailedResponse == [status |-> "failed", items |-> <<>>]
OkResponse(items) == [status |-> "ok", items |-> items]
\* The request was never sent.
Unasked == [status |-> "unasked", items |-> <<>>]

\* GetMetricStatistics: a failure, or up to MaxPoints datapoints of the
\* requested statistic.
MetricResponses ==
    {FailedResponse} \cup {OkResponse(d) : d \in SeqsUpTo(0..MaxSum, MaxPoints)}

\* A small sample of the above, for the calls whose result does not use it.
SampleMetricResponses == {FailedResponse, OkResponse(<<>>), OkResponse(<<MaxSum>>)}

\* FilterLogEvents over [startTime, endTime]: a failure, or up to MaxEvents
\* events whose timestamps lie in the window (both ends included), which the
\* source hands out in pages linked by a continuation token.
EventTimes(startTime, endTime) ==
    {startTime, startTime + ((endTime - startTime) \div 2), endTime}

\* The answer to the first request (no token): its page of events, and the pages
\* the source holds behind the nextToken of that answer (none: no token).
PagedResponse(items, later) == [status |-> "ok", items |-> items, later |-> later]

RECURSIVE Flatten(_)
Flatten(pages) == IF pages = <<>> THEN <<>> ELSE Head(pages) \o Flatten(Tail(pages))

LogResponses(startTime, endTime) ==
    LET Events == {[timestamp |-> t] : t \in EventTimes(startTime, endTime)}
        Pages == SeqsUpTo(Events, MaxEvents)
        LaterPages == SeqsUpTo(Pages \ {<<>>}, MaxLaterPages)
    IN {FailedResponse} \cup
       {PagedResponse(r[1], r[2]) :
            r \in {q \in Pages \X LaterPages :
                      Len(q[1]) + Len(Flatten(q[2])) <= MaxEvents}}

\* A small sample of the above, for the steps that only pass the answer on.
SampleLogResponses(startTime, endTime) ==
    {FailedResponse, PagedResponse(<<>>, <<>>),
     PagedResponse(<<[timestamp |-> endTime]>>, <<>>)}

FunctionName == "my-function"

\* The time-range tokens a caller may pass: the five recognized ones and one
\* that is not.
RecognizedTokens == {"1h", "6h", "24h", "7d", "30d"}
TimeRangeTokens == RecognizedTokens \cup {"90d"}

----------------------------------------------------------------------------
\* LambdaAnalyzer helper methods.

Range1h == 3600
Range6h == 21600
Range24h == 86400
Range7d == 604800
Range30d == 2592000

ranges ==
    [t \in RecognizedTokens |->
        CASE t = "1h" -> Range1h
          [] t = "6h" -> Range6h
          [] t = "24h" -> Range24h
          [] t = "7d" -> Range7d
          [] t = "30d" -> Range30d]

\* ranges[timeRange] || ranges['24h']
parseTimeRange(timeRange) ==
    IF timeRange \in DOMAIN ranges THEN ranges[timeRange] ELSE ranges["24h"]

RECURSIVE SumSeq(_)
SumSeq(s) == IF s = <<>> THEN 0 ELSE Head(s) + SumSeq(Tail(s))

\* A datapoint is the value of the requested statistic in it, or Absent when
\* the datapoint has no such property (point[statistic] is undefined).
Absent == -1

\* point[statistic] || 0
StatisticOf(point) == IF point = Absent THEN 0 ELSE point

\* The mean over the datapoints that have the statistic only.
getMetricValueOfPresent(response) ==
    LET present == SelectSeq(response.items, LAMBDA point : point # Absent)
    IN IF response.status # "ok" THEN Zero
       ELSE IF Len(present) = 0 THEN Zero
       ELSE Frac(SumSeq(present), Len(present))

\* getMetricValue: 0 on a failed fetch (the catch), 0 for no datapoints, else
\* the mean of the statistic over the datapoints.
getMetricValue(response) ==
    IF response.status # "ok" THEN Zero
    ELSE IF Len(response.items) = 0 THEN Zero
    ELSE Frac(SumSeq([i \in DOMAIN response.items |-> StatisticOf(response.items[i])]),
              Len(response.items))

\* Math.round((a / b) * 100 * 100) / 100 in hundredths, for fractions a, b with
\* b # 0.
RatePer100(a, b) == MathRound(a.num * b.den * 10000, a.den * b.num)

\* calculateErrorRate(errors, invocations)
calculateErrorRate(errors, invocations) ==
    IF invocations.num = 0 THEN 0 ELSE RatePer100(errors, invocations)

\* calculateColdStartRate(coldStarts, invocations); coldStarts is a count.
calculateColdStartRate(coldStarts, invocations) ==
    IF invocations.num = 0 THEN 0 ELSE RatePer100(Frac(coldStarts, 1), invocations)

\* getColdStartEvents: one FilterLogEvents request, sent without a token; the
\* events of its answer (response.events, the nextToken unread), or [] when the
\* fetch fails (the catch).
getColdStartEvents(response) ==
    IF response.status = "ok" THEN response.items ELSE <<>>

----------------------------------------------------------------------------
\* Peak hours.

SecondsPerHour == 3600
HoursPerDay == 24

\* new Date(timestamp).getHours(), the zone offset taken as 0.
getHours(timestamp) == (timestamp \div SecondsPerHour) % HoursPerDay

DigitChar(d) == <<"0", "1", "2", "3", "4", "5", "6", "7", "8", "9">>[d + 1]

\* The decimal text of a non-negative integer below 100, as a property key or a
\* template substitution gives it: no padding.  A text is a sequence of
\* one-character strings.
NumberToString(n) ==
    IF n < 10 THEN <<DigitChar(n)>> ELSE <<DigitChar(n \div 10), DigitChar(n % 10)>>

\* hourCounts[hour] = (hourCounts[hour] || 0) + 1 over all hours
HourCounts(hours) ==
    [h \in Range(hours) |-> Cardinality({i \in DOMAIN hours : hours[i] = h})]

\* Object.entries(hourCounts): the keys are integer indices, which an object
\* enumerates in ascending numeric order whatever the insertion order.
RECURSIVE AscendingKeys(_)
AscendingKeys(S) ==
    IF S = {} THEN <<>>
    ELSE LET m == CHOOSE x \in S : \A y \in S : x <= y
         IN <<m>> \o AscendingKeys(S \ {m})

ObjectEntries(hourCounts) ==
    LET keys == AscendingKeys(DOMAIN hourCounts)
    IN [i \in DOMAIN keys |-> <<keys[i], hourCounts[keys[i]]>>]

\* A comparator with the operands exchanged, a - b: ascending counts.
CompareCountsAscending(x, y) == x[2] - y[2]

\* The comparator ([,a], [,b]) => b - a
CompareCounts(x, y) == y[2] - x[2]

\* Array.prototype.sort is stable: entries that compare equal keep their order.
RECURSIVE InsertStable(_, _)
InsertStable(sorted, e) ==
    IF sorted = <<>> THEN <<e>>
    ELSE IF CompareCounts(Head(sorted), e) <= 0
         THEN <<Head(sorted)>> \o InsertStable(Tail(sorted), e)
         ELSE <<e>> \o sorted

RECURSIVE SortEntries(_, _)
SortEntries(entries, acc) ==
    IF entries = <<>> THEN acc
    ELSE SortEntries(Tail(entries), InsertStable(acc, Head(entries)))

PeakCount == 3

\* .slice(0, 3)
Slice3(s) == SubSeq(s, 1, Min(Len(s), PeakCount))

\* `${hour}:00`
HourLabel(hour) == NumberToString(hour) \o <<":", "0", "0">>

findPeakHours(hours) ==
    LET sortedHours == Slice3(SortEntries(ObjectEntries(HourCounts(hours)), <<>>))
    IN [i \in DOMAIN sortedHours |-> HourLabel(sortedHours[i][1])]

----------------------------------------------------------------------------
\* Cold-start pattern analysis.

\* coldStarts / invocations > 1 / k, as the floating-point division decides it:
\* x / 0 is Infinity for x > 0 and NaN (greater than nothing) for x = 0.
RateExceeds(coldStarts, invocations, k) ==
    IF invocations.num = 0 THEN coldStarts > 0
    ELSE coldStarts * invocations.den * k > invocations.num

determineColdStartFrequency(coldStarts, invocations) ==
    IF RateExceeds(coldStarts, invocations, 2) THEN "Very High"           \* > 0.5
    ELSE IF RateExceeds(coldStarts, invocations, 5) THEN "High"           \* > 0.2
    ELSE IF RateExceeds(coldStarts, invocations, 10) THEN "Moderate"      \* > 0.1
    ELSE IF RateExceeds(coldStarts, invocations, 20) THEN "Low"           \* > 0.05
    ELSE "Very Low"

PlaceholderAvgDuration == 1000
PlaceholderMaxDuration == 2000

analyzeColdStartPatterns(coldStartEvents, totalInvocations) ==
    IF Len(coldStartEvents) = 0
    THEN [avgDuration |-> 0, maxDuration |-> 0, peakHours |-> <<>>,
          frequency |-> "None", triggers |-> <<>>]
    ELSE LET hours == [i \in DOMAIN coldStartEvents |->
                          getHours(coldStartEvents[i].timestamp)]
         IN [avgDuration |-> PlaceholderAvgDuration,
             maxDuration |-> PlaceholderMaxDuration,
             peakHours |-> findPeakHours(hours),
             frequency |-> determineColdStartFrequency(Len(coldStartEvents),
                                                       totalInvocations),
             triggers |-> <<"Low traffic periods", "Function updates", "Scaling events">>]

generateColdStartRecommendations(analysis) ==
    (IF analysis.frequency = "High" \/ analysis.frequency = "Very High"
     THEN <<"Consider using Provisioned Concurrency to reduce cold starts",
            "Optimize function initialization code",
            "Use connection pooling for database connections">>
     ELSE <<>>)
    \o
    (IF analysis.avgDuration > 1000
     THEN <<"Reduce package size and dependencies",
            "Use Lambda layers for shared dependencies">>
     ELSE <<>>)
    \o
    <<"Consider using ARM-based Graviton2 processors for better price-performance">>

TimelinePeriods == 24
SecondsPerDay == 86400

\* createColdStartTimeline; clockAt[i] is what Date.now() reads in iteration i.
\* toLocaleTimeString() keeps the time of day of periodStart and drops the date.
createColdStartTimeline(coldStartEvents, timeRange, clockAt) ==
    LET periodMs == parseTimeRange(timeRange) \div TimelinePeriods
    IN [k \in 1..TimelinePeriods |->
          LET i == k - 1
              periodStart == clockAt[i] - parseTimeRange(timeRange) + (i * periodMs)
              periodEnd == periodStart + periodMs
              periodEvents == {j \in DOMAIN coldStartEvents :
                                  /\ coldStartEvents[j].timestamp >= periodStart
                                  /\ coldStartEvents[j].timestamp < periodEnd}
          IN [time |-> periodStart % SecondsPerDay,
              coldStarts |-> Cardinality(periodEvents),
              duration |-> 1000]]

----------------------------------------------------------------------------
\* The analyzer's operations.

\* The methods class LambdaAnalyzer defines.
LambdaAnalyzerMethods ==
    {"analyzeFunction", "trackColdStarts", "compareFunctions", "listFunctions",
     "analyzeMemoryUtilization", "analyzeCosts", "monitorRealTime", "parseTimeRange",
     "getFunctionConfig", "getMetrics", "getMetricValue", "calculateErrorRate",
     "calculateColdStartRate", "getColdStartEvents", "getTotalInvocations",
     "analyzeColdStartPatterns", "findPeakHours", "determineColdStartFrequency",
     "generateColdStartRecommendations", "createColdStartTimeline",
     "generateMemoryRecommendation", "analyzeMemoryPatterns", "calculateVariance",
     "calculateTrend", "calculateMemoryUtilization", "analyzeErrors", "analyzeTrends",
     "getMemoryUsageDetails", "getMemoryUsageFromLogs", "generateComparisonInsights",
     "generateComparisonRecommendations", "estimateCost", "analyzeFunctionCosts",
     "analyzeAccountCosts", "getRecentActivity", "checkPerformanceAlerts",
     "getRecentColdStarts"}

\* Calling this.<name>(...) throws a TypeError when the class has no such method.
IsCallable(name) == name \in LambdaAnalyzerMethods

MetricNames ==
    {"Invocations", "DurationAverage", "DurationMaximum", "Errors", "ConcurrentExecutions"}

\* The order in which getMetrics asks for them.
MetricOrder ==
    <<"Invocations", "DurationAverage", "DurationMaximum", "Errors", "ConcurrentExecutions">>

NoMetrics == [m \in MetricNames |-> Unasked]

Fetch(api, metric, startTime, endTime) ==
    [api |-> api, metric |-> metric, startTime |-> startTime, endTime |-> endTime]

\* getMetrics(functionName, startTime, endTime): five getMetricValue calls.
getMetrics(responses) ==
    [invocations |-> getMetricValue(responses["Invocations"]),
     avgDuration |-> getMetricValue(responses["DurationAverage"]),
     maxDuration |-> getMetricValue(responses["DurationMaximum"]),
     errors |-> getMetricValue(responses["Errors"]),
     concurrentExecutions |-> getMetricValue(responses["ConcurrentExecutions"])]

MetricFetches(startTime, endTime) ==
    [i \in DOMAIN MetricOrder |->
        Fetch("GetMetricStatistics", MetricOrder[i], startTime, endTime)]

\* The object of the catch block of trackColdStarts.
ColdStartsUnavailable ==
    [total |-> 0, rate |-> 0, avgDuration |-> 0, maxDuration |-> 0,
     peakHours |-> <<>>, frequency |-> "Unknown", triggers |-> <<>>,
     recommendations |->
        <<"Unable to analyze cold starts - check CloudWatch Logs permissions">>,
     timeline |-> <<>>]

\* Whether a statement of the try block of trackColdStarts throws.
\* getColdStartEvents and getMetricValue catch the failures of their own
\* requests and the other statements compute on their results, so none does.
TryBlockThrows(logsResponse, invocationsResponse) == FALSE

\* trackColdStarts(functionName, timeRange), given the answers to its two
\* requests and the clock readings of the timeline loop.
trackColdStarts(timeRange, logsResponse, invocationsResponse, clockAt) ==
    IF TryBlockThrows(logsResponse, invocationsResponse)
    THEN ColdStartsUnavailable
    ELSE LET coldStartEvents == getColdStartEvents(logsResponse)
             totalInvocations == getMetricValue(invocationsResponse)
             analysis == analyzeColdStartPatterns(coldStartEvents, totalInvocations)
         IN [total |-> Len(coldStartEvents),
             rate |-> calculateColdStartRate(Len(coldStartEvents), totalInvocations),
             avgDuration |-> analysis.avgDuration,
             maxDuration |-> analysis.maxDuration,
             peakHours |-> analysis.peakHours,
             frequency |-> analysis.frequency,
             triggers |-> analysis.triggers,
             recommendations |-> generateColdStartRecommendations(analysis),
             timeline |-> createColdStartTimeline(coldStartEvents, timeRange, clockAt)]

\* The tool calls the server may have in progress at once.
Tasks == {1, 2}

\* The fields the constructor of LambdaAnalyzer sets.
AnalyzerFields ==
    [lambdaClient |-> "LambdaClient", cloudWatchClient |-> "CloudWatchClient",
     logsClient |-> "CloudWatchLogsClient"]

\* A tool call that has not started: pc 0.  At pc k in 1..5 the call awaits
\* the answer to the k-th request of getMetrics; at pc 6 it has returned.
IdleTask ==
    [pc |-> 0, functionName |-> "", duration |-> 0, responses |-> NoMetrics,
     result |-> [op |-> "none"]]

\* const metrics = {}; a property not yet assigned reads as 0 (undefined || 0).
EmptyMetrics ==
    [invocations |-> Zero, avgDuration |-> Zero, maxDuration |-> Zero,
     errors |-> Zero, concurrentExecutions |-> Zero]

Init ==
    /\ analyzer = AnalyzerFields
    /\ tasks = [t \in Tasks |-> IdleTask]
    /\ objects = [t \in Tasks |-> EmptyMetrics]
    /\ now = Clock0
    /\ call = [op |-> "none"]
    /\ telemetry = [config |-> "unasked", metrics |-> NoMetrics, logs |-> Unasked]
    /\ fetches = <<>>
    /\ outcome = "none"
    /\ result = [op |-> "none"]

\* A call starts when the caller holds no unconsumed result.
Idle == outcome = "none"

\* The clock after a call that spent `elapsed` awaiting.
Advance(elapsed) ==
    /\ now + elapsed <= Clock0 + MaxClockAdvance
    /\ now' = now + elapsed

\* The caller consumes the result (or the rejection) of its call.
Deliver ==
    /\ outcome \in {"returned", "rejected"}
    /\ UNCHANGED concurrent
    /\ call' = [op |-> "none"]
    /\ telemetry' = [config |-> "unasked", metrics |-> NoMetrics, logs |-> Unasked]
    /\ fetches' = <<>>
    /\ outcome' = "none"
    /\ result' = [op |-> "none"]
    /\ UNCHANGED now

TrackColdStarts ==
    /\ Idle
    /\ UNCHANGED concurrent
    /\ \E timeRange \in TimeRangeTokens, elapsed \in 0..MaxElapsed :
        LET timeRangeMs == parseTimeRange(timeRange)
            endTime == now
            startTime == endTime - timeRangeMs
        IN \E logsResponse \in LogResponses(startTime, endTime),
              invocationsResponse \in MetricResponses :
               /\ Advance(elapsed)
               /\ call' = [op |-> "trackColdStarts", functionName |-> FunctionName,
                           timeRange |-> timeRange]
               /\ telemetry' = [config |-> "unasked",
                                metrics |-> [NoMetrics EXCEPT !["Invocations"] =
                                                                invocationsResponse],
                                logs |-> logsResponse]
               /\ fetches' = <<Fetch("FilterLogEvents", "", startTime, endTime),
                               Fetch("GetMetricStatistics", "Invocations",
                                     startTime, endTime)>>
               /\ outcome' = "returned"
               /\ result' = trackColdStarts(timeRange, logsResponse, invocationsResponse,
                                            [i \in 0..(TimelinePeriods - 1) |->
                                                now + elapsed])

----------------------------------------------------------------------------
\* analyzeFunction.

Rejected(error) == [outcome |-> "rejected", value |-> [error |-> error]]
Returned(value) == [outcome |-> "returned", value |-> value]

\* What the missing method could return, were it defined: {total, avgDuration,
\* pattern}.
ColdStartAnalyses ==
    {[total |-> c, avgDuration |-> d, pattern |-> "None"] :
        c \in 0..MaxEvents, d \in {0, PlaceholderAvgDuration}}

\* calculateMemoryUtilization: Math.floor(Math.random() * 40) + 40
MemoryUtilizations == 40..79

\* The placeholders of analyzeErrors, analyzeTrends and getMemoryUsageDetails.
AnalysisDetails ==
    [errors |-> <<[type |-> "Timeout", count |-> 5],
                  [type |-> "Memory exceeded", count |-> 2]>>,
     trends |-> <<"Duration trending upward over time period",
                  "Error rate stable",
                  "Cold start frequency decreasing">>,
     memoryUsage |-> [peak |-> 256, average |-> 180, minimum |-> 120]]

\* The object analyzeFunction assembles (lines 27-55).
AssembleAnalysis(timeRange, includeDetails, metrics, coldStartAnalysis, memoryUtilization) ==
    LET analysis ==
            [functionName |-> FunctionName,
             timeRange |-> timeRange,
             totalInvocations |-> metrics.invocations,
             avgDuration |-> metrics.avgDuration,
             p50Duration |-> Zero,
             p95Duration |-> Zero,
             p99Duration |-> Zero,
             maxDuration |-> metrics.maxDuration,
             errorRate |-> calculateErrorRate(metrics.errors, metrics.invocations),
             coldStartRate |-> calculateColdStartRate(coldStartAnalysis.total,
                                                      metrics.invocations),
             memoryUtilization |-> memoryUtilization,
             coldStarts |-> [total |-> coldStartAnalysis.total,
                             avgDuration |-> coldStartAnalysis.avgDuration,
                             pattern |-> coldStartAnalysis.pattern],
             config |-> "Configuration",
             hasDetails |-> includeDetails]
    IN IF includeDetails
       THEN analysis @@ [details |-> AnalysisDetails]
       ELSE analysis

\* analyzeFunction up to its call of analyzeColdStartsFromLogs: the error it is
\* rejected with, or "none".  getFunctionConfig has no catch, and so a failed
\* GetFunction rejects the call; getMetricValue catches its own failures.
AnalyzeFunctionError(configStatus) ==
    IF configStatus # "ok" THEN "GetFunction failed"
    ELSE IF ~IsCallable("analyzeColdStartsFromLogs")
         THEN "TypeError: this.analyzeColdStartsFromLogs is not a function"
         ELSE "none"

AnalyzeFunction ==
    /\ Idle
    /\ UNCHANGED concurrent
    /\ \E timeRange \in TimeRangeTokens, includeDetails \in BOOLEAN,
       elapsed \in 0..MaxElapsed, configStatus \in {"ok", "failed"} :
        LET timeRangeMs == parseTimeRange(timeRange)
            endTime == now
            startTime == endTime - timeRangeMs
        IN \E responses \in (IF configStatus = "ok"
                             THEN [MetricNames -> SampleMetricResponses]
                             ELSE {NoMetrics}) :
               /\ Advance(elapsed)
               /\ call' = [op |-> "analyzeFunction", functionName |-> FunctionName,
                           timeRange |-> timeRange, includeDetails |-> includeDetails]
               /\ telemetry' = [config |-> configStatus, metrics |-> responses,
                                logs |-> Unasked]
               /\ fetches' = <<Fetch("GetFunction", "", 0, 0)>>
                             \o (IF configStatus = "ok"
                                 THEN MetricFetches(startTime, endTime)
                                 ELSE <<>>)
               /\ IF AnalyzeFunctionError(configStatus) # "none"
                  THEN /\ outcome' = "rejected"
                       /\ result' = [error |-> AnalyzeFunctionError(configStatus)]
                  ELSE \E coldStartAnalysis \in ColdStartAnalyses,
                          memoryUtilization \in MemoryUtilizations :
                           /\ outcome' = "returned"
                           /\ result' = AssembleAnalysis(timeRange, includeDetails,
                                                         getMetrics(responses),
                                                         coldStartAnalysis,
                                                         memoryUtilization)

----------------------------------------------------------------------------
\* monitorRealTime.

\* The durations (minutes) a caller may pass; the tool's default is 5.
Durations == {-5, 0, 5}

SecondsPerMinute == 60

GreaterThan(value, n) == value.num > n * value.den

checkPerformanceAlerts(metrics) ==
    (IF GreaterThan(metrics.avgDuration, 5000)
     THEN <<"High average duration detected (>5s)">> ELSE <<>>)
    \o
    (IF calculateErrorRate(metrics.errors, metrics.invocations) > 500
     THEN <<"High error rate detected (>5%)">> ELSE <<>>)
    \o
    (IF GreaterThan(metrics.concurrentExecutions, 900)
     THEN <<"Approaching concurrency limit">> ELSE <<>>)

\* The placeholder of getRecentActivity.
RecentActivity ==
    <<[timestamp |-> "10:30:15", event |-> "Invocation", duration |-> 245],
      [timestamp |-> "10:29:45", event |-> "Cold Start", duration |-> 1200],
      [timestamp |-> "10:28:30", event |-> "Invocation", duration |-> 180]>>

\* The placeholder of getRecentColdStarts.
RecentColdStarts == 3

monitorRealTime(metrics) ==
    [activeInvocations |-> metrics.concurrentExecutions,
     recentInvocations |-> metrics.invocations,
     avgDuration |-> metrics.avgDuration,
     errorRate |-> calculateErrorRate(metrics.errors, metrics.invocations),
     coldStarts |-> RecentColdStarts,
     alerts |-> checkPerformanceAlerts(metrics),
     recentActivity |-> RecentActivity]

MonitorRealTime ==
    /\ Idle
    /\ UNCHANGED concurrent
    /\ \E duration \in Durations, elapsed \in 0..MaxElapsed,
       responses \in [MetricNames -> SampleMetricResponses] :
        LET endTime == now
            startTime == endTime - (duration * SecondsPerMinute)
        IN /\ Advance(elapsed)
           /\ call' = [op |-> "monitorRealTime", functionName |-> FunctionName,
                       duration |-> duration]
           /\ telemetry' = [config |-> "unasked", metrics |-> responses, logs |-> Unasked]
           /\ fetches' = MetricFetches(startTime, endTime)
           /\ outcome' = "returned"
           /\ result' = monitorRealTime(getMetrics(responses))

----------------------------------------------------------------------------
\* analyzeCosts.  Money is in cents.

\* The placeholder of analyzeFunctionCosts.
FunctionCosts ==
    [total |-> 1245, compute |-> 1020, requests |-> 225, dataTransfer |-> 0,
     computePercent |-> 82, requestsPercent |-> 18, invocations |-> 150000,
     totalDuration |-> 45000000, avgDuration |-> 300,
     optimizations |->
        <<[type |-> "Memory optimization", description |-> "Reduce memory allocation",
           savings |-> 250],
          [type |-> "Duration optimization", description |-> "Optimize code performance",
           savings |-> 180]>>,
     dailyAverage |-> 41, trend |-> "Stable", peakDay |-> "2024-01-15", peakCost |-> 89]

\* The placeholder of analyzeAccountCosts.
AccountCosts ==
    [total |-> 24567, compute |-> 19845, requests |-> 4722, dataTransfer |-> 0,
     computePercent |-> 81, requestsPercent |-> 19, invocations |-> 2500000,
     totalDuration |-> 750000000, avgDuration |-> 300,
     optimizations |->
        <<[type |-> "Right-sizing", description |-> "Optimize memory across functions",
           savings |-> 4520],
          [type |-> "Cold start reduction",
           description |-> "Implement provisioned concurrency", savings |-> 2310]>>,
     dailyAverage |-> 819, trend |-> "Increasing", peakDay |-> "2024-01-20",
     peakCost |-> 1245]

\* analyzeCosts(functionName, timeRange); functionName may be absent ("").
analyzeCosts(functionName) ==
    IF functionName # "" THEN FunctionCosts ELSE AccountCosts

AnalyzeCosts ==
    /\ Idle
    /\ UNCHANGED concurrent
    /\ \E functionName \in {FunctionName, ""}, timeRange \in TimeRangeTokens,
       elapsed \in 0..MaxElapsed :
        /\ Advance(elapsed)
        /\ call' = [op |-> "analyzeCosts", functionName |-> functionName,
                    timeRange |-> timeRange]
        /\ telemetry' = [config |-> "unasked", metrics |-> NoMetrics, logs |-> Unasked]
        /\ fetches' = <<>>
        /\ outcome' = "returned"
        /\ result' = analyzeCosts(functionName)

----------------------------------------------------------------------------
\* analyzeMemoryUtilization.  Memory is in MB.

\* Math.ceil(a / b) for a >= 0, b > 0.
MathCeil(a, b) == (a + b - 1) \div b

Max(a, b) == IF a > b THEN a ELSE b

\* The memory sizes (config.MemorySize) a function may be configured with.
AllocatedSizes == {128, 256}

\* Values of the placeholder draw Math.floor(Math.random() * 200) + 100.
PlaceholderUsages == {100, 199, 299}

\* getMemoryUsageFromLogs: what the placeholder may return.  The source draws
\* 100 samples; the model draws MaxSamples of them.
getMemoryUsageFromLogs == [1..MaxSamples -> PlaceholderUsages]

\* The variance with the divisor n - 1 in place of n.
calculateVarianceOfSample(values) ==
    LET n == Len(values)
        S == SumSeq(values)
    IN Frac(SumSeq([i \in DOMAIN values |-> ((n * values[i]) - S) * ((n * values[i]) - S)]),
            n * n * (n - 1))

\* calculateVariance(values): the mean of the squared differences from the
\* mean, sum((v - S/n)^2) / n = sum((n*v - S)^2) / n^3.
calculateVariance(values) ==
    LET n == Len(values)
        S == SumSeq(values)
    IN Frac(SumSeq([i \in DOMAIN values |-> ((n * values[i]) - S) * ((n * values[i]) - S)]),
            n * n * n)

\* calculateTrend(values): (secondAvg - firstAvg) / firstAvg as num/den with
\* den >= 0; den = 0 stands for the division by a zero firstAvg (Infinity for
\* num > 0, NaN for num = 0).
calculateTrend(values) ==
    IF Len(values) < 2 THEN Zero
    ELSE LET half == Len(values) \div 2
             firstHalf == SubSeq(values, 1, half)
             secondHalf == SubSeq(values, half + 1, Len(values))
         IN Frac((SumSeq(secondHalf) * Len(firstHalf)) - (SumSeq(firstHalf) * Len(secondHalf)),
                 SumSeq(firstHalf) * Len(secondHalf))

\* trend > 0.1 and trend < -0.1
TrendAbove(trend) ==
    IF trend.den = 0 THEN trend.num > 0 ELSE 10 * trend.num > trend.den
TrendBelow(trend) ==
    IF trend.den = 0 THEN FALSE ELSE 10 * trend.num < 0 - trend.den

analyzeMemoryPatterns(memoryUsage) ==
    IF Len(memoryUsage) = 0 THEN <<"No memory usage data available">>
    ELSE LET variance == calculateVariance(memoryUsage)
             trend == calculateTrend(memoryUsage)
         IN (IF variance.num < 100 * variance.den
             THEN <<"Consistent memory usage pattern">>
             ELSE <<"Variable memory usage - consider workload optimization">>)
            \o
            (IF TrendAbove(trend) THEN <<"Increasing memory usage trend detected">>
             ELSE IF TrendBelow(trend) THEN <<"Decreasing memory usage trend detected">>
             ELSE <<>>)

\* generateMemoryRecommendation(allocated, avgUsed, peakUsed, utilizationPercent);
\* costImpact is the direction and the percentage of its text.
generateMemoryRecommendation(allocated, avgUsed, peakUsed, utilizationPercent) ==
    IF utilizationPercent < 50
    THEN LET recommendedMemory == Max(128, MathCeil(peakUsed * 12, 640) * 64)
         IN [memory |-> recommendedMemory,
             reasoning |-> "Memory is over-provisioned. Reducing memory will lower costs.",
             performanceImpact |-> "Minimal performance impact expected",
             costImpact |-> [direction |-> "Reduce",
                             percent |-> MathRound((allocated - recommendedMemory) * 100,
                                                   allocated)]]
    ELSE IF utilizationPercent > 85
    THEN LET recommendedMemory == MathCeil(peakUsed * 13, 640) * 64
         IN [memory |-> recommendedMemory,
             reasoning |->
                "Memory utilization is high. Increasing memory may improve performance.",
             performanceImpact |-> "Improved performance and reduced duration expected",
             costImpact |-> [direction |-> "Increase",
                             percent |-> MathRound((recommendedMemory - allocated) * 100,
                                                   allocated)]]
    ELSE [memory |-> allocated,
          reasoning |-> "Memory allocation appears optimal for current usage patterns.",
          performanceImpact |-> "No change expected",
          costImpact |-> [direction |-> "No change", percent |-> 0]]

\* Math.max(...memoryUsage, 0) with the operands exchanged for Math.min.
MinUsedAsMax(memoryUsage, allocatedMemory) ==
    CHOOSE m \in Range(memoryUsage) \cup {allocatedMemory} :
        \A u \in Range(memoryUsage) \cup {allocatedMemory} : m >= u

\* Math.min(...memoryUsage, allocatedMemory)
MinUsed(memoryUsage, allocatedMemory) ==
    CHOOSE m \in Range(memoryUsage) \cup {allocatedMemory} :
        \A u \in Range(memoryUsage) \cup {allocatedMemory} : m <= u

\* Math.max(...memoryUsage, 0)
PeakUsed(memoryUsage) ==
    CHOOSE m \in Range(memoryUsage) \cup {0} :
        \A u \in Range(memoryUsage) \cup {0} : m >= u

\* analyzeMemoryUtilization from line 178 on, given config.MemorySize and the
\* samples of getMemoryUsageFromLogs.  avgUsed is sum / length || 0: 0 for no
\* samples (NaN || 0).
analyzeMemoryUtilization(allocatedMemory, memoryUsage) ==
    LET n == Len(memoryUsage)
        avgUsed == IF n = 0 THEN Zero ELSE Frac(SumSeq(memoryUsage), n)
        peakUsed == PeakUsed(memoryUsage)
        minUsed == MinUsed(memoryUsage, allocatedMemory)
        utilizationPercent == MathRound(avgUsed.num * 100, avgUsed.den * allocatedMemory)
        recommendation == generateMemoryRecommendation(allocatedMemory, avgUsed, peakUsed,
                                                       utilizationPercent)
    IN [allocated |-> allocatedMemory,
        avgUsed |-> MathRound(avgUsed.num, avgUsed.den),
        peakUsed |-> peakUsed,
        minUsed |-> minUsed,
        utilizationPercent |-> utilizationPercent,
        recommended |-> recommendation.memory,
        reasoning |-> recommendation.reasoning,
        performanceImpact |-> recommendation.performanceImpact,
        costImpact |-> recommendation.costImpact,
        patterns |-> analyzeMemoryPatterns(memoryUsage)]

\* analyzeMemoryUtilization with the given arguments and GetFunction answer,
\* invoked when the clock reads `now`.  getFunctionConfig has no catch: a failed
\* GetFunction rejects the call.
AnalyzeMemoryUtilizationOf(timeRange, elapsed, configStatus, memorySize) ==
    /\ Advance(elapsed)
    /\ call' = [op |-> "analyzeMemoryUtilization", functionName |-> FunctionName,
                timeRange |-> timeRange, at |-> now]
    /\ telemetry' = [config |-> configStatus, metrics |-> NoMetrics, logs |-> Unasked,
                     memorySize |-> memorySize]
    /\ fetches' = <<Fetch("GetFunction", "", 0, 0)>>
    /\ IF configStatus # "ok"
       THEN /\ outcome' = "rejected"
            /\ result' = [error |-> "GetFunction failed"]
       ELSE \E memoryUsage \in getMemoryUsageFromLogs :
               /\ outcome' = "returned"
               /\ result' = analyzeMemoryUtilization(memorySize, memoryUsage)

AnalyzeMemoryUtilization ==
    /\ Idle
    /\ UNCHANGED concurrent
    /\ \E timeRange \in TimeRangeTokens, elapsed \in 0..MaxElapsed :
          \/ AnalyzeMemoryUtilizationOf(timeRange, elapsed, "failed", 0)
          \/ \E memorySize \in AllocatedSizes :
                AnalyzeMemoryUtilizationOf(timeRange, elapsed, "ok", memorySize)

----------------------------------------------------------------------------
\* compareFunctions.

\* The names a caller may list.
FunctionNames == {FunctionName, "other-function"}

\* What the telemetry source answers about one function: GetFunction fails, or
\* gives the configuration and each of the five metric fetches gets an answer.
FunctionAnswers ==
    {[config |-> "failed", memorySize |-> 0, metrics |-> NoMetrics]} \cup
    {[config |-> "ok", memorySize |-> m, metrics |-> [n \in MetricNames |-> r]] :
        m \in AllocatedSizes, r \in SampleMetricResponses}

\* A function the call never came to ask about.
NotAsked == [config |-> "unasked", memorySize |-> 0, metrics |-> NoMetrics]

\* estimateCost(analysis): the three quantities the amount is computed from,
\* (totalInvocations / 1000000) * 0.20 + (totalInvocations * avgDuration / 1000)
\* * (MemorySize / 1024) * 0.0000166667; the amount itself is not evaluated.
estimateCost(analysis) ==
    [totalInvocations |-> analysis.totalInvocations,
     avgDuration |-> analysis.avgDuration,
     MemorySize |-> analysis.config.MemorySize]

\* a < b for fractions.
LessThan(a, b) == a.num * b.den < b.num * a.den

\* comparisons.reduce((best, current) => current.values.duration <
\* best.values.duration ? current : best), no initial value: the list is not
\* empty.
\* The reduction with <= in place of <: on a tie the later entry wins.
RECURSIVE BestDurationKeepingLast(_, _)
BestDurationKeepingLast(best, rest) ==
    IF rest = <<>> THEN best
    ELSE BestDurationKeepingLast(
             IF ~LessThan(best.values.duration, Head(rest).values.duration)
             THEN Head(rest) ELSE best,
             Tail(rest))

RECURSIVE BestDuration(_, _)
BestDuration(best, rest) ==
    IF rest = <<>> THEN best
    ELSE BestDuration(IF LessThan(Head(rest).values.duration, best.values.duration)
                      THEN Head(rest) ELSE best,
                      Tail(rest))

RECURSIVE WorstColdStart(_, _)
WorstColdStart(worst, rest) ==
    IF rest = <<>> THEN worst
    ELSE WorstColdStart(IF Head(rest).values.coldStarts > worst.values.coldStarts
                        THEN Head(rest) ELSE worst,
                        Tail(rest))

\* generateComparisonInsights(comparisons), comparisons not empty; an insight is
\* the name and the value its text carries.
generateComparisonInsights(comparisons) ==
    LET bestDuration == BestDuration(Head(comparisons), Tail(comparisons))
        worstColdStart == WorstColdStart(Head(comparisons), Tail(comparisons))
    IN <<[insight |-> "best average duration", name |-> bestDuration.name,
          value |-> bestDuration.values.duration],
         [insight |-> "highest cold start rate", name |-> worstColdStart.name,
          value |-> worstColdStart.values.coldStarts]>>

\* generateComparisonRecommendations(comparisons); rates are in hundredths.
generateComparisonRecommendations(comparisons) ==
    LET highColdStart == SelectSeq(comparisons, LAMBDA f : f.values.coldStarts > 1000)
        highError == SelectSeq(comparisons, LAMBDA f : f.values.errors > 100)
        NamesOf(fs) == [i \in DOMAIN fs |-> fs[i].name]
    IN (IF Len(highColdStart) > 0
        THEN <<[recommendation |-> "Consider optimizing cold start performance for",
                names |-> NamesOf(highColdStart)]>>
        ELSE <<>>)
       \o
       (IF Len(highError) > 0
        THEN <<[recommendation |-> "Review error handling for",
                names |-> NamesOf(highError)]>>
        ELSE <<>>)

\* The index of the first function whose analysis is rejected, 0 when none is.
FirstRejected(answers) ==
    LET failing == {i \in DOMAIN answers : AnalyzeFunctionError(answers[i].config) # "none"}
    IN IF failing = {} THEN 0 ELSE CHOOSE i \in failing : \A j \in failing : i <= j

\* The requests of the analysis of one function.
AnalysisFetches(answer, startTime, endTime) ==
    <<Fetch("GetFunction", "", 0, 0)>>
    \o (IF answer.config = "ok" THEN MetricFetches(startTime, endTime) ELSE <<>>)

RECURSIVE ComparisonFetches(_, _, _)
ComparisonFetches(answers, startTime, endTime) ==
    IF answers = <<>> THEN <<>>
    ELSE AnalysisFetches(Head(answers), startTime, endTime)
         \o ComparisonFetches(Tail(answers), startTime, endTime)

\* The entry the loop pushes for one analysed function.
Comparison(functionName, analysis) ==
    [name |-> functionName,
     values |-> [duration |-> analysis.avgDuration,
                 coldStarts |-> analysis.coldStartRate,
                 errors |-> analysis.errorRate,
                 invocations |-> analysis.totalInvocations,
                 cost |-> estimateCost(analysis)]]

\* compareFunctions(functionNames, timeRange, metrics): the analyses run one
\* after the other, each awaited before the next starts, and nothing catches a
\* rejection: the first analysis that is rejected rejects the call.
CompareFunctions ==
    /\ Idle
    /\ UNCHANGED concurrent
    /\ \E functionNames \in SeqsUpTo(FunctionNames, MaxFunctions),
          timeRange \in TimeRangeTokens, elapsed \in 0..MaxElapsed :
        \E answers \in [DOMAIN functionNames -> FunctionAnswers] :
            LET endTime == now
                startTime == endTime - parseTimeRange(timeRange)
                rejected == FirstRejected(answers)
                asked == IF rejected = 0 THEN Len(functionNames) ELSE rejected
            IN /\ Advance(elapsed)
               /\ call' = [op |-> "compareFunctions", functionNames |-> functionNames,
                           timeRange |-> timeRange]
               /\ telemetry' = [config |-> "unasked", metrics |-> NoMetrics,
                                logs |-> Unasked,
                                functions |-> [i \in DOMAIN functionNames |->
                                                 IF i <= asked THEN answers[i]
                                                 ELSE NotAsked]]
               /\ fetches' = ComparisonFetches(SubSeq(answers, 1, asked),
                                               startTime, endTime)
               /\ IF rejected # 0
                  THEN /\ outcome' = "rejected"
                       /\ result' = [error |-> AnalyzeFunctionError(answers[rejected].config)]
                  ELSE IF functionNames = <<>>
                  THEN /\ outcome' = "rejected"
                       /\ result' = [error |->
                            "TypeError: Reduce of empty array with no initial value"]
                  ELSE \E coldStartAnalyses \in [DOMAIN functionNames -> ColdStartAnalyses],
                          memoryUtilizations \in [DOMAIN functionNames -> MemoryUtilizations] :
                        LET comparisons ==
                              [i \in DOMAIN functionNames |->
                                  Comparison(functionNames[i],
                                      [AssembleAnalysis(timeRange, FALSE,
                                                        getMetrics(answers[i].metrics),
                                                        coldStartAnalyses[i],
                                                        memoryUtilizations[i])
                                          EXCEPT !.functionName = functionNames[i],
                                                 !.config = [MemorySize |->
                                                                answers[i].memorySize]])]
                        IN /\ outcome' = "returned"
                           /\ result' = [functions |-> comparisons,
                                         metrics |-> <<"duration", "cold-starts", "errors",
                                                       "invocations", "cost">>,
                                         insights |-> generateComparisonInsights(comparisons),
                                         recommendations |->
                                            generateComparisonRecommendations(comparisons)]

Next ==
    \/ CompareFunctions
    \/ AnalyzeMemoryUtilization
    \/ TrackColdStarts
    \/ AnalyzeFunction
    \/ MonitorRealTime
    \/ AnalyzeCosts
    \/ Deliver

Spec == Init /\ [][Next]_vars

----------------------------------------------------------------------------
\* createColdStartTimeline on its own, on the events of a window that ends at
\* the time of the fetch.  Every iteration of its loop reads Date.now(): the
\* clock may tick before any of them.

\* The clock readings of the iterations 0..23 when the clock ticks by tick
\* before iteration tickAt.
ClockReadings(tickAt, tick) ==
    [i \in 0..(TimelinePeriods - 1) |-> IF i >= tickAt THEN now + tick ELSE now]

CreateColdStartTimeline ==
    /\ Idle
    /\ UNCHANGED concurrent
    /\ \E timeRange \in TimeRangeTokens, tick \in 0..MaxElapsed,
          tickAt \in 0..(TimelinePeriods - 1) :
        LET endTime == now
            startTime == endTime - parseTimeRange(timeRange)
        IN \E coldStartEvents \in
                 SeqsUpTo({[timestamp |-> t] : t \in EventTimes(startTime, endTime)},
                          MaxEvents) :
               /\ Advance(tick)
               /\ call' = [op |-> "createColdStartTimeline", timeRange |-> timeRange,
                           coldStartEvents |-> coldStartEvents,
                           startTime |-> startTime, endTime |-> endTime]
               /\ outcome' = "returned"
               /\ result' = [timeline |-> createColdStartTimeline(coldStartEvents, timeRange,
                                                                 ClockReadings(tickAt, tick))]
               /\ UNCHANGED <<telemetry, fetches>>

NextTimeline ==
    \/ CreateColdStartTimeline
    \/ Deliver

SpecTimeline == Init /\ [][NextTimeline]_vars

----------------------------------------------------------------------------
\* listFunctions.

Runtimes == {"nodejs18.x", "python3.9"}

\* The runtime argument: absent (falsy, no filter) or a runtime.
NoRuntime == ""
RuntimeFilters == {NoRuntime} \cup Runtimes

\* The entries of response.Functions: functions of distinct names.
ListedFunctions ==
    {fs \in SeqsUpTo([FunctionName : FunctionNames, Runtime : Runtimes,
                      MemorySize : {128}], MaxFunctions) :
        \A i, j \in DOMAIN fs : fs[i].FunctionName = fs[j].FunctionName => i = j}

\* The answers to ListFunctionsCommand: a failure, a response without the
\* Functions property, or a list of functions.
ListFunctionsResponses ==
    {[status |-> "failed", hasFunctions |-> FALSE, Functions |-> <<>>],
     [status |-> "ok", hasFunctions |-> FALSE, Functions |-> <<>>]}
    \cup {[status |-> "ok", hasFunctions |-> TRUE, Functions |-> fs] : fs \in ListedFunctions}

\* The metrics property of an entry: not set, null, or the three values.
MetricsUnset == [kind |-> "undefined"]
MetricsNull == [kind |-> "null"]
QuickMetrics(quickAnalysis) ==
    [kind |-> "object",
     avgDuration |-> quickAnalysis.avgDuration,
     coldStartRate |-> quickAnalysis.coldStartRate,
     errorRate |-> quickAnalysis.errorRate]

\* The entry of one function (lines 139-160); the analysis is
\* analyzeFunction(func.FunctionName, '24h', false).
FunctionInfo(func, includeMetrics, answer, coldStartAnalysis, memoryUtilization) ==
    [name |-> func.FunctionName,
     runtime |-> func.Runtime,
     memory |-> func.MemorySize,
     metrics |->
        IF ~includeMetrics THEN MetricsUnset
        ELSE IF AnalyzeFunctionError(answer.config) # "none" THEN MetricsNull
        ELSE QuickMetrics(AssembleAnalysis("24h", FALSE, getMetrics(answer.metrics),
                                           coldStartAnalysis, memoryUtilization))]

\* functions.filter(func => func.Runtime === runtime), when runtime is truthy.
FilterByRuntime(functions, runtime) ==
    IF runtime = NoRuntime THEN functions
    ELSE SelectSeq(functions, LAMBDA func : func.Runtime = runtime)

\* listFunctions(runtime, includeMetrics): a failed ListFunctions rejects the
\* call (nothing catches it); the rejection of an analysis is caught per
\* function.
ListFunctions ==
    /\ Idle
    /\ UNCHANGED concurrent
    /\ \E runtime \in RuntimeFilters, includeMetrics \in BOOLEAN,
          response \in ListFunctionsResponses, elapsed \in 0..MaxElapsed :
        LET functions == FilterByRuntime(IF response.hasFunctions THEN response.Functions
                                         ELSE <<>>, runtime)
            endTime == now
            startTime == endTime - parseTimeRange("24h")
        IN /\ Advance(elapsed)
           /\ call' = [op |-> "listFunctions", runtime |-> runtime,
                       includeMetrics |-> includeMetrics]
           /\ IF response.status # "ok"
              THEN /\ telemetry' = [config |-> "unasked", metrics |-> NoMetrics,
                                    logs |-> Unasked, listing |-> response,
                                    functions |-> <<>>]
                   /\ fetches' = <<Fetch("ListFunctions", "", 0, 0)>>
                   /\ outcome' = "rejected"
                   /\ result' = [error |-> "ListFunctions failed"]
              ELSE \E answers \in [DOMAIN functions ->
                                     IF includeMetrics THEN FunctionAnswers
                                     ELSE {NotAsked}] :
                    LET analysed == {i \in DOMAIN functions :
                                        /\ includeMetrics
                                        /\ AnalyzeFunctionError(answers[i].config) = "none"}
                    IN \E coldStartAnalyses \in [analysed -> ColdStartAnalyses],
                          memoryUtilizations \in [analysed -> MemoryUtilizations] :
                        /\ telemetry' = [config |-> "unasked", metrics |-> NoMetrics,
                                         logs |-> Unasked, listing |-> response,
                                         functions |-> answers]
                        /\ fetches' = <<Fetch("ListFunctions", "", 0, 0)>>
                                      \o (IF includeMetrics
                                          THEN ComparisonFetches(answers, startTime, endTime)
                                          ELSE <<>>)
                        /\ outcome' = "returned"
                        /\ result' =
                             [functions |->
                                [i \in DOMAIN functions |->
                                    FunctionInfo(functions[i], includeMetrics, answers[i],
                                                 IF i \in analysed THEN coldStartAnalyses[i]
                                                 ELSE [total |-> 0],
                                                 IF i \in analysed THEN memoryUtilizations[i]
                                                 ELSE 0)]]

NextList ==
    \/ ListFunctions
    \/ Deliver

SpecList == Init /\ [][NextList]_vars

----------------------------------------------------------------------------
\* The request handlers of the server: ListTools and CallTool.  A text is the
\* sequence of the parts it is concatenated from.

\* The names of the tools array that the ListTools handler returns, in order.
AdvertisedTools ==
    <<"analyze_lambda_performance", "track_cold_starts",
      "get_optimization_recommendations", "compare_lambda_performance",
      "list_lambda_functions", "analyze_memory_utilization", "get_cost_analysis",
      "monitor_real_time_performance">>

\* The case labels of the switch of the CallTool handler, in order, each with
\* the method it calls.
ToolCases ==
    <<[label |-> "analyze_lambda_performance", method |-> "analyzeLambdaPerformance"],
      [label |-> "track_cold_starts", method |-> "trackColdStarts"],
      [label |-> "get_optimization_recommendations",
       method |-> "getOptimizationRecommendations"],
      [label |-> "compare_lambda_performance", method |-> "compareLambdaPerformance"],
      [label |-> "list_lambda_functions", method |-> "listLambdaFunctions"],
      [label |-> "analyze_memory_utilization", method |-> "analyzeMemoryUtilization"],
      [label |-> "get_cost_analysis", method |-> "getCostAnalysis"],
      [label |-> "monitor_real_time_performance", method |-> "monitorRealTimePerformance"]>>

\* The default branch of the switch.
DefaultCase == "default"

\* The branch taken among the given cases for a name: the method of the first
\* case with that label, or the default branch.
Switch(cases, name) ==
    LET matching == {i \in DOMAIN cases : cases[i].label = name}
    IN IF matching = {} THEN DefaultCase
       ELSE cases[CHOOSE i \in matching : \A j \in matching : i <= j].method

\* The switch without its last case.
DispatchWithoutLastCase(name) == Switch(SubSeq(ToolCases, 1, Len(ToolCases) - 1), name)

\* switch (name)
Dispatch(name) == Switch(ToolCases, name)

\* The names a request may carry: the advertised ones and others.
RequestNames == Range(AdvertisedTools) \cup {"unknown_tool", "", "analyzeLambdaPerformance"}

\* The first line of the report a tool method returns.
ReportTitle(method) ==
    CASE method = "analyzeLambdaPerformance" -> "# Lambda Performance Analysis: "
      [] method = "trackColdStarts" -> "# Cold Start Analysis: "
      [] method = "getOptimizationRecommendations" -> "# Optimization Recommendations: "
      [] method = "compareLambdaPerformance" -> "# Lambda Performance Comparison"
      [] method = "listLambdaFunctions" -> "# Lambda Functions"
      [] method = "analyzeMemoryUtilization" -> "# Memory Utilization Analysis: "
      [] method = "getCostAnalysis" -> "# Cost Analysis"
      [] method = "monitorRealTimePerformance" -> "# Real-time Performance Monitoring: "

TextContent(text) == [content |-> <<[type |-> "text", text |-> text]>>]

\* The arguments of a request: none, or the function and the time range.
NoArguments == [present |-> FALSE, functionName |-> "", timeRange |-> ""]
RequestArguments ==
    {NoArguments}
    \cup {[present |-> TRUE, functionName |-> f, timeRange |-> t] :
            f \in FunctionNames, t \in TimeRangeTokens}

\* The report of a tool method, up to the end of its first line.
Report(method, args) ==
    TextContent(IF method \in {"compareLambdaPerformance", "listLambdaFunctions"}
                THEN <<ReportTitle(method)>>
                ELSE IF method = "getCostAnalysis"
                THEN <<ReportTitle(method), ": ", args.functionName>>
                ELSE <<ReportTitle(method), args.functionName>>)

\* What a tool method does with the arguments of the request: it returns its
\* report or throws an Error with a message.  Every method destructures args
\* first, which throws when the request has no arguments; the analyses behind
\* analyzeLambdaPerformance and compareLambdaPerformance are always rejected.
ToolOutcomes(method, args) ==
    IF ~args.present
    THEN {Rejected(<<"Cannot destructure property of 'args' as it is undefined.">>)}
    ELSE CASE method \in {"analyzeLambdaPerformance", "compareLambdaPerformance"} ->
                {Rejected(<<AnalyzeFunctionError(c)>>) : c \in {"ok", "failed"}}
                \cup (IF method = "compareLambdaPerformance"
                      THEN {Rejected(<<"Reduce of empty array with no initial value">>)}
                      ELSE {})
           [] method = "listLambdaFunctions" ->
                {Returned(Report(method, args)), Rejected(<<"ListFunctions failed">>)}
           [] method = "analyzeMemoryUtilization" ->
                {Returned(Report(method, args)),
                 Rejected(<<AnalyzeFunctionError("failed")>>)}
           [] OTHER -> {Returned(Report(method, args))}

\* The catch block with the error thrown on to the caller.
PropagateError(name, error) == Rejected(error)

\* catch (error): the response with the text of the error.
CatchError(name, error) ==
    Returned(TextContent(<<"Error executing ", name, ": ">> \o error))

\* The CallTool handler on a request {name, arguments}, given what the tool
\* method it calls does.
CallToolHandler(name, implementation) ==
    IF Dispatch(name) = DefaultCase
    THEN CatchError(name, <<"Unknown tool: ", name>>)
    ELSE IF implementation.outcome = "rejected"
    THEN CatchError(name, implementation.value.error)
    ELSE implementation

ListTools ==
    /\ Idle
    /\ UNCHANGED concurrent
    /\ call' = [op |-> "ListTools"]
    /\ outcome' = "returned"
    /\ result' = [tools |-> [i \in DOMAIN AdvertisedTools |-> [name |-> AdvertisedTools[i]]]]
    /\ UNCHANGED <<now, telemetry, fetches>>

CallTool ==
    /\ Idle
    /\ UNCHANGED concurrent
    /\ \E name \in RequestNames, args \in RequestArguments :
        \E implementation \in (IF Dispatch(name) = DefaultCase
                                THEN {Rejected(<<"Unknown tool: ", name>>)}
                                ELSE ToolOutcomes(Dispatch(name), args)) :
            LET response == CallToolHandler(name, implementation)
            IN /\ call' = [op |-> "CallTool", name |-> name,
                           arguments |-> args,
                           method |-> Dispatch(name),
                           implementation |-> implementation]
               /\ outcome' = response.outcome
               /\ result' = response.value
               /\ UNCHANGED <<now, telemetry, fetches>>

NextServer ==
    \/ ListTools
    \/ CallTool
    \/ Deliver

SpecServer == Init /\ [][NextServer]_vars

----------------------------------------------------------------------------
\* generateComparisonInsights on its own, on every non-empty list of
\* comparisons of distinct functions.

ComparedNames == FunctionNames \cup {"third-function"}

MaxCompared == 3

\* The durations (ms) and the cold-start rates (hundredths of a percent) of
\* the comparisons.
ComparedDurations == {Frac(MaxSum, 2), Frac(MaxSum, 1), Frac(2 * MaxSum, 1)}
ComparedRates == {0, 5000, 10000}

Comparisons ==
    {cs \in SeqsUpTo([name : ComparedNames,
                      values : [duration : ComparedDurations,
                                coldStarts : ComparedRates]], MaxCompared) :
        /\ cs # <<>>
        /\ \A i, j \in DOMAIN cs : cs[i].name = cs[j].name => i = j}

GenerateComparisonInsights ==
    /\ Idle
    /\ UNCHANGED concurrent
    /\ \E comparisons \in Comparisons :
        /\ call' = [op |-> "generateComparisonInsights", comparisons |-> comparisons]
        /\ outcome' = "returned"
        /\ result' = [insights |-> generateComparisonInsights(comparisons)]
        /\ UNCHANGED <<now, telemetry, fetches>>

NextInsights ==
    \/ GenerateComparisonInsights
    \/ Deliver

SpecInsights == Init /\ [][NextInsights]_vars

----------------------------------------------------------------------------
\* PerformanceOptimizer.  Durations are in ms, sizes in MB, costPerInvocation
\* in millionths of a dollar.

\* A number that may be NaN.
Number(v) == [nan |-> FALSE, value |-> v]
NaN == [nan |-> TRUE, value |-> 0]

\* PerformanceOptimizer.analyzeFunction: the mock analysis objects.  Each
\* Math.random() draw is one value on either side of every threshold that the
\* optimizer compares the field with.
OptimizerAnalyses ==
    {[functionName |-> FunctionName,
      coldStartRate |-> f[1],
      packageSize |-> f[2],
      initDuration |-> f[3],
      runtime |-> "nodejs18.x",
      memoryUtilization |-> f[4],
      allocatedMemory |-> 512,
      recommendedMemory |-> 256,
      avgDuration |-> f[5],
      hasDatabase |-> f[6],
      usesConnectionPooling |-> f[7],
      externalApiCalls |-> f[8],
      dataProcessingTime |-> f[9],
      costPerInvocation |-> f[10],
      architecture |-> "x86_64",
      isArmCompatible |-> f[11],
      hasProvisionedConcurrency |-> f[12],
      provisionedUtilization |-> f[13],
      environment |-> "production",
      memoryTrend |-> f[14],
      costSavingsPercent |-> 25] :
        f \in {10, 25} \X {10, 80} \X {1000, 3000} \X {30, 70, 95} \X {2000, 6000}
              \X BOOLEAN \X BOOLEAN \X {2, 8} \X {500, 1900} \X {500, 1500}
              \X BOOLEAN \X BOOLEAN \X {20, 80} \X {"increasing", "stable"}}

\* text.includes(word), for the runtimes and titles the optimizer handles.
Includes(text, word) ==
    <<text, word>> \in {<<"nodejs18.x", "nodejs">>,
                       <<"Right-size Memory Allocation", "Right-size Memory">>,
                       <<"Migrate to ARM Architecture", "ARM Architecture">>}

\* An optimization is its title and its impact (the texts that describe it are
\* constants that go with the title).
Optimization(title, impact) == [title |-> title, impact |-> impact]

If(condition, optimization) == IF condition THEN <<optimization>> ELSE <<>>

getColdStartOptimizations(analysis) ==
    If(analysis.coldStartRate > 20,
       Optimization("Implement Provisioned Concurrency", "High"))
    \o If(analysis.packageSize > 50,
          Optimization("Optimize Deployment Package Size", "High"))
    \o If(analysis.initDuration > 2000,
          Optimization("Optimize Initialization Code", "Medium"))
    \o If(Includes(analysis.runtime, "java") \/ Includes(analysis.runtime, "dotnet"),
          Optimization("Consider Runtime Migration", "Medium"))

getMemoryOptimizations(analysis) ==
    If(analysis.memoryUtilization < 50,
       Optimization("Right-size Memory Allocation", "High"))
    \o If(analysis.memoryUtilization > 90,
          Optimization("Increase Memory Allocation", "High"))
    \o If(analysis.memoryTrend = "increasing",
          Optimization("Investigate Memory Leaks", "Medium"))

getDurationOptimizations(analysis) ==
    If(analysis.avgDuration > 5000,
       Optimization("Optimize Code Performance", "High"))
    \o If(analysis.hasDatabase /\ ~analysis.usesConnectionPooling,
          Optimization("Implement Connection Pooling", "High"))
    \o If(analysis.externalApiCalls > 5,
          Optimization("Optimize External API Calls", "Medium"))
    \o If(10 * analysis.dataProcessingTime > 7 * analysis.avgDuration,
          Optimization("Optimize Data Processing", "Medium"))

getCostOptimizations(analysis) ==
    If(analysis.costPerInvocation > 1000,
       Optimization("Reduce Cost Per Invocation", "High"))
    \o If(analysis.architecture = "x86_64" /\ analysis.isArmCompatible,
          Optimization("Migrate to ARM Architecture", "Medium"))
    \o If(analysis.hasProvisionedConcurrency /\ analysis.provisionedUtilization < 50,
          Optimization("Optimize Provisioned Concurrency", "High"))

impactOrder == [High |-> 3, Medium |-> 2, Low |-> 1]

\* The comparator with the operands exchanged: ascending impact.
CompareImpactAscending(a, b) == impactOrder[a.impact] - impactOrder[b.impact]

\* (a, b) => impactOrder[b.impact] - impactOrder[a.impact]
CompareImpact(a, b) == impactOrder[b.impact] - impactOrder[a.impact]

\* allOptimizations.sort(...): stable.
RECURSIVE InsertByImpact(_, _)
InsertByImpact(sorted, e) ==
    IF sorted = <<>> THEN <<e>>
    ELSE IF CompareImpact(Head(sorted), e) <= 0
         THEN <<Head(sorted)>> \o InsertByImpact(Tail(sorted), e)
         ELSE <<e>> \o sorted

RECURSIVE SortByImpact(_, _)
SortByImpact(optimizations, acc) ==
    IF optimizations = <<>> THEN acc
    ELSE SortByImpact(Tail(optimizations), InsertByImpact(acc, Head(optimizations)))

TopCount == 5

\* The four categories combined, before the sort.
AllCandidates(analysis) ==
    getColdStartOptimizations(analysis) \o getMemoryOptimizations(analysis)
    \o getDurationOptimizations(analysis) \o getCostOptimizations(analysis)

getAllOptimizations(analysis) ==
    LET allOptimizations == SortByImpact(AllCandidates(analysis), <<>>)
    IN SubSeq(allOptimizations, 1, Min(Len(allOptimizations), TopCount))

getAdditionalOptimizations(analysis) ==
    If(analysis.environment = "development",
       "Consider using smaller memory allocation for development environment")
    \o (IF Includes(analysis.runtime, "nodejs")
        THEN <<"Use Node.js 18.x or later for improved performance",
               "Implement proper error handling to avoid unhandled promise rejections">>
        ELSE <<>>)
    \o (IF Includes(analysis.runtime, "python")
        THEN <<"Use Python 3.9+ for better performance",
               "Consider using compiled libraries for CPU-intensive operations">>
        ELSE <<>>)
    \o <<"Regularly update dependencies to latest versions",
         "Implement least-privilege IAM roles",
         "Enable AWS X-Ray tracing for better observability",
         "Set up CloudWatch alarms for key metrics",
         "Implement structured logging for better debugging",
         "Use AWS Lambda Insights for enhanced monitoring">>

\* Math.max(30, Math.min(900, Math.ceil(analysis.p95Duration / 1000) * 2)); an
\* object without p95Duration gives undefined / 1000 = NaN, which Math.ceil,
\* Math.min and Math.max all hand on.
calculateOptimalTimeout(analysis) ==
    IF "p95Duration" \notin DOMAIN analysis THEN NaN
    ELSE Number(Max(30, Min(900, MathCeil(analysis.p95Duration, 1000) * 2)))

recommendRuntime(analysis) ==
    IF Includes(analysis.runtime, "nodejs16") THEN "nodejs18.x"
    ELSE IF Includes(analysis.runtime, "python3.8") THEN "python3.9"
    ELSE analysis.runtime

recommendArchitecture(analysis) ==
    IF analysis.isArmCompatible /\ analysis.architecture = "x86_64" THEN "arm64"
    ELSE analysis.architecture

\* analysis.recommendedMemory || analysis.allocatedMemory
getConfigurationRecommendations(analysis) ==
    [memory |-> IF analysis.recommendedMemory # 0 THEN analysis.recommendedMemory
                ELSE analysis.allocatedMemory,
     timeout |-> calculateOptimalTimeout(analysis),
     runtime |-> recommendRuntime(analysis),
     architecture |-> recommendArchitecture(analysis)]

RECURSIVE GCD(_, _)
GCD(a, b) == IF b = 0 THEN a ELSE GCD(b, a % b)

\* The same fraction in lowest terms.
Reduce(x) == LET g == GCD(x.num, x.den) IN Frac(x.num \div g, x.den \div g)

\* x * y, cancelling across before multiplying.
Multiply(x, y) ==
    LET g == GCD(x.num, y.den)
        h == GCD(y.num, x.den)
    IN Reduce(Frac((x.num \div g) * (y.num \div h), (x.den \div h) * (y.den \div g)))

\* x - y, over the least common denominator.
Subtract(x, y) ==
    LET g == GCD(x.den, y.den)
    IN Reduce(Frac((x.num * (y.den \div g)) - (y.num * (x.den \div g)),
                   (x.den \div g) * y.den))

\* x + y, over the least common denominator.
Add(x, y) ==
    LET g == GCD(x.den, y.den)
    IN Reduce(Frac((x.num * (y.den \div g)) + (y.num * (x.den \div g)),
                   (x.den \div g) * y.den))

DefaultMonthlyInvocations == 100000

\* calculateMonthlyCost, in dollars: monthlyInvocations / 1000000 * 0.20 +
\* monthlyInvocations * (avgDuration / 1000) * (allocatedMemory / 1024) *
\* 0.0000166667, where analysis.monthlyInvocations || 100000; 0.0000166667 is
\* 166667 / 100000 / 100000.
calculateMonthlyCost(analysis) ==
    LET monthlyInvocations ==
            IF "monthlyInvocations" \in DOMAIN analysis /\ analysis.monthlyInvocations # 0
            THEN analysis.monthlyInvocations
            ELSE DefaultMonthlyInvocations
        requestCost == Multiply(Reduce(Frac(monthlyInvocations, 1000000)), Frac(1, 5))
        computeCost ==
            Multiply(Multiply(Multiply(Multiply(Frac(monthlyInvocations, 1),
                                                Frac(1, 100000)),
                                       Frac(166667, 100000)),
                              Reduce(Frac(analysis.avgDuration, 1000))),
                     Reduce(Frac(analysis.allocatedMemory, 1024)))
    IN Add(requestCost, computeCost)

\* Math.round(x * 100) / 100, in cents.
RoundToCents(x) == LET c == Multiply(x, Frac(100, 1)) IN MathRound(c.num, c.den)

RECURSIVE ApplyReductions(_, _)
ApplyReductions(cost, priority) ==
    IF priority = <<>> THEN cost
    ELSE LET title == Head(priority).title
             a == IF Includes(title, "Right-size Memory")
                  THEN Multiply(cost, Frac(7, 10)) ELSE cost
             b == IF Includes(title, "ARM Architecture")
                  THEN Multiply(a, Frac(4, 5)) ELSE a
             c == IF Includes(title, "Optimize Duration")
                  THEN Multiply(b, Frac(17, 20)) ELSE b
         IN ApplyReductions(c, Tail(priority))

getCostImpactAnalysis(analysis, priority) ==
    LET currentMonthlyCost == calculateMonthlyCost(analysis)
        optimizedCost == ApplyReductions(currentMonthlyCost, priority)
        savings == Subtract(currentMonthlyCost, optimizedCost)
        share == Multiply(Multiply(savings, Frac(currentMonthlyCost.den,
                                                 currentMonthlyCost.num)),
                          Frac(100, 1))
    IN [current |-> RoundToCents(currentMonthlyCost),
        optimized |-> RoundToCents(optimizedCost),
        savings |-> RoundToCents(savings),
        savingsPercent |-> MathRound(share.num, share.den)]

AnalysisTypes == {"cold-start", "memory", "duration", "cost", "all"}

\* getRecommendations(functionName, analysisType), on the analysis object it
\* got from analyzeFunction.
getRecommendations(analysisType, analysis) ==
    LET priority ==
            CASE analysisType = "cold-start" -> getColdStartOptimizations(analysis)
              [] analysisType = "memory" -> getMemoryOptimizations(analysis)
              [] analysisType = "duration" -> getDurationOptimizations(analysis)
              [] analysisType = "cost" -> getCostOptimizations(analysis)
              [] OTHER -> getAllOptimizations(analysis)
    IN [priority |-> priority,
        additional |-> getAdditionalOptimizations(analysis),
        config |-> getConfigurationRecommendations(analysis),
        cost |-> getCostImpactAnalysis(analysis, priority)]

GetRecommendations ==
    /\ Idle
    /\ UNCHANGED concurrent
    /\ \E analysisType \in AnalysisTypes, analysis \in OptimizerAnalyses :
        /\ call' = [op |-> "getRecommendations", functionName |-> FunctionName,
                    analysisType |-> analysisType, analysis |-> analysis]
        /\ outcome' = "returned"
        /\ result' = getRecommendations(analysisType, analysis)
        /\ UNCHANGED <<now, telemetry, fetches>>

NextOptimizer ==
    \/ GetRecommendations
    \/ Deliver

SpecOptimizer == Init /\ [][NextOptimizer]_vars

----------------------------------------------------------------------------
\* findPeakHours on its own: the hours of up to MaxPeakEvents cold starts that
\* fall within MaxSpread hours after a base hour (the hour may wrap past 23).

FindPeakHours ==
    /\ Idle
    /\ UNCHANGED concurrent
    /\ \E base \in 0..(HoursPerDay - 1), offsets \in SeqsUpTo(0..MaxSpread, MaxPeakEvents) :
        LET hours == [i \in DOMAIN offsets |-> (base + offsets[i]) % HoursPerDay]
        IN /\ call' = [op |-> "findPeakHours", hours |-> hours]
           /\ outcome' = "returned"
           /\ result' = [peakHours |-> findPeakHours(hours)]
           /\ UNCHANGED <<now, telemetry, fetches>>

NextPeak ==
    \/ FindPeakHours
    \/ Deliver

SpecPeak == Init /\ [][NextPeak]_vars

----------------------------------------------------------------------------
\* trackColdStarts await by await: each request is a step of its own, and the
\* telemetry source may answer it or never answer it.  The code passes no
\* timeout and no abort signal to client.send, and nothing else bounds an await.

Pending == [status |-> "pending", items |-> <<>>]
Silent == [status |-> "silent", items |-> <<>>]

\* The call up to its first await: logsClient.send in getColdStartEvents.
StartTrackColdStarts ==
    /\ Idle
    /\ UNCHANGED concurrent
    /\ \E timeRange \in TimeRangeTokens :
        /\ call' = [op |-> "trackColdStarts", functionName |-> FunctionName,
                    timeRange |-> timeRange]
        /\ telemetry' = [config |-> "unasked", metrics |-> NoMetrics, logs |-> Pending]
        /\ fetches' = <<Fetch("FilterLogEvents", "", now - parseTimeRange(timeRange), now)>>
        /\ outcome' = "awaiting"
        /\ UNCHANGED <<now, result>>

\* FilterLogEvents is answered: the call goes on to its second await,
\* cloudWatchClient.send in getMetricValue.
AnswerLogEvents ==
    /\ outcome = "awaiting"
    /\ UNCHANGED concurrent
    /\ telemetry.logs = Pending
    /\ \E elapsed \in 0..MaxElapsed,
          logsResponse \in SampleLogResponses(fetches[1].startTime, fetches[1].endTime) :
        /\ Advance(elapsed)
        /\ telemetry' = [telemetry EXCEPT !.logs = logsResponse,
                                          !.metrics["Invocations"] = Pending]
        /\ fetches' = Append(fetches, Fetch("GetMetricStatistics", "Invocations",
                                            fetches[1].startTime, fetches[1].endTime))
        /\ UNCHANGED <<call, outcome, result>>

\* GetMetricStatistics is answered: the call runs to its end.
AnswerInvocations ==
    /\ outcome = "awaiting"
    /\ UNCHANGED concurrent
    /\ telemetry.metrics["Invocations"] = Pending
    /\ \E elapsed \in 0..MaxElapsed, invocationsResponse \in SampleMetricResponses :
        /\ Advance(elapsed)
        /\ telemetry' = [telemetry EXCEPT !.metrics["Invocations"] = invocationsResponse]
        /\ outcome' = "returned"
        /\ result' = trackColdStarts(call.timeRange, telemetry.logs, invocationsResponse,
                                     [i \in 0..(TimelinePeriods - 1) |-> now + elapsed])
        /\ UNCHANGED <<call, fetches>>

\* The source is never going to answer the request the call awaits.
NeverAnswer ==
    /\ outcome = "awaiting"
    /\ UNCHANGED concurrent
    /\ \/ /\ telemetry.logs = Pending
          /\ telemetry' = [telemetry EXCEPT !.logs = Silent]
       \/ /\ telemetry.metrics["Invocations"] = Pending
          /\ telemetry' = [telemetry EXCEPT !.metrics["Invocations"] = Silent]
    /\ UNCHANGED <<now, call, fetches, outcome, result>>

NextAwait ==
    \/ StartTrackColdStarts
    \/ AnswerLogEvents
    \/ AnswerInvocations
    \/ NeverAnswer
    \/ Deliver

\* Whatever can run does run: the event loop resumes a call whose request was
\* answered, and the source settles (by an answer or by silence) each request.
SpecAwait == Init /\ [][NextAwait]_vars /\ WF_vars(NextAwait)

----------------------------------------------------------------------------
\* Tool calls interleaved at their await points: monitorRealTime of different
\* functions, each a call of the CallTool handler on the one LambdaAnalyzer.

\* A single metrics object that every call of getMetrics fills.
MetricsObjectShared(t) == 1

\* The object `const metrics = {}` of the getMetrics call of task t: a new
\* object for each call.
MetricsObject(t) == t

\* The function task t asks about.
TaskFunction(t) == IF t = 1 THEN FunctionName ELSE "other-function"

\* The property of the metrics object that the k-th request fills.
MetricField ==
    <<"invocations", "avgDuration", "maxDuration", "errors", "concurrentExecutions">>

\* The answers a request of a concurrent call may get.
TaskMetricResponses == {FailedResponse, OkResponse(<<MaxSum>>)}

\* The handler dispatches monitor_real_time_performance: monitorRealTime runs
\* up to the first await of getMetrics.
StartMonitorRealTime(t) ==
    /\ tasks[t].pc = 0
    /\ tasks' = [tasks EXCEPT ![t] = [pc |-> 1, functionName |-> TaskFunction(t),
                                      duration |-> 5, responses |-> NoMetrics,
                                      result |-> [op |-> "none"]]]
    /\ objects' = [objects EXCEPT ![MetricsObject(t)] = EmptyMetrics]
    /\ UNCHANGED <<analyzer, now, call, telemetry, fetches, outcome, result>>

\* The request task t awaits is answered: the value is assigned to the metrics
\* object, and the call goes on to its next request or, after the fifth, runs
\* to its end on the object as it then is.
AnswerTaskMetric(t) ==
    /\ tasks[t].pc \in 1..5
    /\ \E response \in TaskMetricResponses :
        LET k == tasks[t].pc
            metrics == [objects[MetricsObject(t)] EXCEPT
                           ![MetricField[k]] = getMetricValue(response)]
        IN /\ objects' = [objects EXCEPT ![MetricsObject(t)] = metrics]
           /\ tasks' = [tasks EXCEPT
                           ![t].responses[MetricOrder[k]] = response,
                           ![t].pc = k + 1,
                           ![t].result = IF k = 5 THEN monitorRealTime(metrics) ELSE @]
    /\ UNCHANGED <<analyzer, now, call, telemetry, fetches, outcome, result>>

\* The handler sends the result of task t to the client.
RespondTask(t) ==
    /\ tasks[t].pc = 6
    /\ tasks' = [tasks EXCEPT ![t] = IdleTask]
    /\ UNCHANGED <<analyzer, objects, now, call, telemetry, fetches, outcome, result>>

NextConcurrent ==
    \/ \E t \in Tasks : StartMonitorRealTime(t)
    \/ \E t \in Tasks : AnswerTaskMetric(t)
    \/ \E t \in Tasks : RespondTask(t)

SpecConcurrent == Init /\ [][NextConcurrent]_vars

----------------------------------------------------------------------------
\* The same analysis run twice: a caller that holds the result of
\* analyzeMemoryUtilization calls it again with the same arguments, and the
\* telemetry source answers as it did before.

AnalyzeMemoryUtilizationAgain ==
    /\ outcome # "none"
    /\ UNCHANGED concurrent
    /\ call.op = "analyzeMemoryUtilization"
    /\ \E elapsed \in 0..MaxElapsed :
          AnalyzeMemoryUtilizationOf(call.timeRange, elapsed, telemetry.config,
                                     telemetry.memorySize)

NextRepeat ==
    \/ AnalyzeMemoryUtilization
    \/ AnalyzeMemoryUtilizationAgain
    \/ Deliver

SpecRepeat == Init /\ [][NextRepeat]_vars

----------------------------------------------------------------------------
\* The summary of analyzeMemoryUtilization on its own: every list of up to
\* MaxSamples non-negative samples (none included) that the log parser behind
\* getMemoryUsageFromLogs may hand over, and every allocated size.

UsageValues == {k * UsageStep : k \in 0..MaxUsage}

AnalyzeMemoryUsage ==
    /\ Idle
    /\ UNCHANGED concurrent
    /\ \E allocatedMemory \in AllocatedSizes,
          memoryUsage \in SeqsUpTo(UsageValues, MaxSamples) :
        /\ call' = [op |-> "analyzeMemoryUsage", allocatedMemory |-> allocatedMemory,
                    memoryUsage |-> memoryUsage]
        /\ outcome' = "returned"
        /\ result' = analyzeMemoryUtilization(allocatedMemory, memoryUsage)
        /\ UNCHANGED <<now, telemetry, fetches>>

NextMemory ==
    \/ AnalyzeMemoryUsage
    \/ Deliver

SpecMemory == Init /\ [][NextMemory]_vars

----------------------------------------------------------------------------
\* calculateVariance and analyzeMemoryPatterns on their own, on every list of
\* up to MaxSamples samples.

\* The lists that analyzeMemoryPatterns hands to calculateVariance, in order.
VarianceCalls(memoryUsage) ==
    IF Len(memoryUsage) = 0 THEN <<>> ELSE <<memoryUsage>>

CalculateVariance ==
    /\ Idle
    /\ UNCHANGED concurrent
    /\ \E values \in SeqsUpTo(UsageValues, MaxSamples) \ {<<>>} :
        /\ call' = [op |-> "calculateVariance", values |-> values]
        /\ outcome' = "returned"
        /\ result' = [value |-> calculateVariance(values)]
        /\ UNCHANGED <<now, telemetry, fetches>>

AnalyzeMemoryPatterns ==
    /\ Idle
    /\ UNCHANGED concurrent
    /\ \E memoryUsage \in SeqsUpTo(UsageValues, MaxSamples) :
        /\ call' = [op |-> "analyzeMemoryPatterns", memoryUsage |-> memoryUsage]
        /\ outcome' = "returned"
        /\ result' = [patterns |-> analyzeMemoryPatterns(memoryUsage),
                      varianceCalls |-> VarianceCalls(memoryUsage)]
        /\ UNCHANGED <<now, telemetry, fetches>>

NextVariance ==
    \/ CalculateVariance
    \/ AnalyzeMemoryPatterns
    \/ Deliver

SpecVariance == Init /\ [][NextVariance]_vars

----------------------------------------------------------------------------
\* getMetricValue on its own: a failed fetch, or up to MaxPoints + 1 datapoints,
\* each with the requested statistic or without it.

GetMetricValue ==
    /\ Idle
    /\ UNCHANGED concurrent
    /\ \E metric \in MetricNames,
          response \in {FailedResponse} \cup
                       {OkResponse(d) :
                           d \in SeqsUpTo({Absent} \cup (0..MaxSum), MaxPoints + 1)} :
        /\ call' = [op |-> "getMetricValue", metric |-> metric]
        /\ telemetry' = [config |-> "unasked",
                         metrics |-> [NoMetrics EXCEPT ![metric] = response],
                         logs |-> Unasked]
        /\ fetches' = <<Fetch("GetMetricStatistics", metric, now - Range1h, now)>>
        /\ outcome' = "returned"
        /\ result' = [value |-> getMetricValue(response)]
        /\ UNCHANGED now

NextMetric ==
    \/ GetMetricValue
    \/ Deliver

SpecMetric == Init /\ [][NextMetric]_vars

----------------------------------------------------------------------------
\* Properties.

InvocationsOf(t) == getMetricValue(t.metrics["Invocations"])

\* C1: the cold-start rate that trackColdStarts and analyzeFunction report is
\* within [0, 100] (0..10000 hundredths), and is 0 when the invocation count is 0.
ColdStartRateWithinBounds ==
    /\ (outcome = "returned" /\ call.op = "trackColdStarts") =>
          /\ result.rate >= 0
          /\ result.rate <= 10000
          /\ (InvocationsOf(telemetry).num = 0 => result.rate = 0)
    /\ (outcome = "returned" /\ call.op = "analyzeFunction") =>
          /\ result.coldStartRate >= 0
          /\ result.coldStartRate <= 10000
          /\ (InvocationsOf(telemetry).num = 0 => result.coldStartRate = 0)

\* C2: when FilterLogEvents fails, trackColdStarts returns the empty result:
\* total 0, rate 0, durations 0, no peak hours, frequency None, and exactly one
\* recommendation, the one that notes the access problem.
LogFailureYieldsAccessNote ==
    (call.op = "trackColdStarts" /\ telemetry.logs.status = "failed") =>
        /\ outcome = "returned"
        /\ result.total = 0
        /\ result.rate = 0
        /\ result.avgDuration = 0
        /\ result.maxDuration = 0
        /\ result.peakHours = <<>>
        /\ result.frequency = "None"
        /\ Len(result.recommendations) = 1
        /\ result.recommendations[1] = ColdStartsUnavailable.recommendations[1]

\* C3: analyzeFunction returns a result, and is not rejected, when a
\* configuration, metric or log fetch fails.
AnalyzeFunctionSurvivesFetchFailure ==
    (/\ call.op = "analyzeFunction"
     /\ \/ telemetry.config = "failed"
        \/ \E m \in MetricNames : telemetry.metrics[m].status = "failed"
        \/ telemetry.logs.status = "failed")
    => outcome = "returned"

\* C4: when the configuration and every metric fetch succeed (and no fetch
\* fails), analyzeFunction returns one assembled result object.
AnalyzeFunctionCompletes ==
    (/\ call.op = "analyzeFunction"
     /\ telemetry.config = "ok"
     /\ \A m \in MetricNames : telemetry.metrics[m].status = "ok"
     /\ telemetry.logs.status # "failed")
    => /\ outcome = "returned"
       /\ result.functionName = call.functionName
       /\ result.timeRange = call.timeRange

\* C5: a call whose time-range token is not a recognized one is rejected.
UnrecognizedTokenRejected ==
    (/\ call.op \in {"analyzeFunction", "trackColdStarts", "analyzeMemoryUtilization",
                     "analyzeCosts"}
     /\ call.timeRange \notin RecognizedTokens)
    => outcome = "rejected"

\* C6: every window analyzeFunction, trackColdStarts and monitorRealTime query
\* the telemetry source with starts before it ends, or the call is rejected.
QueriedWindowsOrdered ==
    call.op \in {"analyzeFunction", "trackColdStarts", "monitorRealTime"} =>
        \/ outcome = "rejected"
        \/ \A i \in DOMAIN fetches :
              fetches[i].api \in {"GetMetricStatistics", "FilterLogEvents"} =>
                  fetches[i].startTime < fetches[i].endTime

\* The class the claim's thresholds give c cold starts in n = num/den > 0
\* invocations: rate = c / n * 100, > 50, > 25, > 10, > 5.
ClaimedClass(c, n) ==
    IF c * n.den * 100 > 50 * n.num THEN "Very High"
    ELSE IF c * n.den * 100 > 25 * n.num THEN "High"
    ELSE IF c * n.den * 100 > 10 * n.num THEN "Moderate"
    ELSE IF c * n.den * 100 > 5 * n.num THEN "Low"
    ELSE "Very Low"

\* C7: for c cold starts and n > 0 invocations the frequency class follows the
\* strict thresholds > 50% Very High, > 25% High, > 10% Moderate, > 5% Low,
\* else Very Low.
FrequencyFollowsClaimedThresholds ==
    (/\ call.op = "trackColdStarts"
     /\ outcome = "returned"
     /\ result.total > 0
     /\ InvocationsOf(telemetry).num > 0)
    => result.frequency = ClaimedClass(result.total, InvocationsOf(telemetry))

\* C8: when the total invocation count is 0 the frequency class is None,
\* whatever the number of cold-start events.
NoInvocationsMeansNone ==
    (/\ call.op = "trackColdStarts"
     /\ outcome = "returned"
     /\ InvocationsOf(telemetry).num = 0)
    => result.frequency = "None"

DigitValue(c) == CHOOSE d \in 0..9 : DigitChar(d) = c

\* The hour a label names: the digits before the colon.
LabelHour(label) ==
    IF label[2] = ":" THEN DigitValue(label[1])
    ELSE (10 * DigitValue(label[1])) + DigitValue(label[2])

CountOf(hours, h) == Cardinality({i \in DOMAIN hours : hours[i] = h})

\* h comes before g: a higher count, or the same count and the lower hour.
Outranks(hours, h, g) ==
    \/ CountOf(hours, h) > CountOf(hours, g)
    \/ CountOf(hours, h) = CountOf(hours, g) /\ h < g

\* C9: findPeakHours returns at most 3 hours (all of them when fewer occur), the
\* ones with the highest counts, in non-increasing count order, equal counts by
\* the lower hour first; none for no cold starts.
PeakHoursAreTopThree ==
    (call.op = "findPeakHours" /\ outcome = "returned") =>
        LET hours == call.hours
            peak == [i \in DOMAIN result.peakHours |-> LabelHour(result.peakHours[i])]
        IN /\ Len(peak) = Min(3, Cardinality(Range(hours)))
           /\ \A i \in DOMAIN peak : peak[i] \in Range(hours)
           /\ \A i, j \in DOMAIN peak : i < j => Outranks(hours, peak[i], peak[j])
           /\ \A h \in Range(hours) \ Range(peak) :
                 \A i \in DOMAIN peak : Outranks(hours, peak[i], h)

\* C9's case: more than three distinct hours, with a tie in count between an
\* hour that is returned and one that is cut off.
PeakHoursTieAtCut ==
    /\ call.op = "findPeakHours"
    /\ outcome = "returned"
    /\ Cardinality(Range(call.hours)) > 3
    /\ Len(result.peakHours) = 3
    /\ \E h \in Range(call.hours) :
          /\ \A i \in DOMAIN result.peakHours : LabelHour(result.peakHours[i]) # h
          /\ CountOf(call.hours, h) = CountOf(call.hours, LabelHour(result.peakHours[3]))
    /\ CountOf(call.hours, LabelHour(result.peakHours[1])) > 1

\* C10: every peak-hour label is HH:00 with a two-digit hour.
PeakLabelsTwoDigit ==
    (call.op = "findPeakHours" /\ outcome = "returned") =>
        \A i \in DOMAIN result.peakHours :
            LET label == result.peakHours[i]
            IN /\ Len(label) = 5
               /\ label[1] \in {DigitChar(d) : d \in 0..2}
               /\ label[2] \in {DigitChar(d) : d \in 0..9}
               /\ SubSeq(label, 3, 5) = <<":", "0", "0">>

\* C11: when the log source holds the matching events over several pages,
\* trackColdStarts asks for every page (one request per page) and the total it
\* reports counts the events of every page, each once.
EveryPageAnalysed ==
    (/\ call.op = "trackColdStarts"
     /\ outcome = "returned"
     /\ telemetry.logs.status = "ok")
    => /\ result.total = Len(telemetry.logs.items) + Len(Flatten(telemetry.logs.later))
       /\ Cardinality({i \in DOMAIN fetches : fetches[i].api = "FilterLogEvents"})
             = 1 + Len(telemetry.logs.later)

\* The sum of the statistic over the datapoints, counted unit by unit; a
\* datapoint without the statistic contributes nothing.
UnitsOf(items) ==
    Cardinality(UNION {{<<i, u>> : u \in 1..items[i]} : i \in DOMAIN items})

\* C12: getMetricValue returns (never raises) the arithmetic mean of the
\* requested statistic over the returned datapoints, a datapoint without the
\* statistic counting as 0; it returns 0 for no datapoints and 0 when the fetch
\* fails.
MetricValueIsMean ==
    call.op = "getMetricValue" =>
        LET response == telemetry.metrics[call.metric]
            n == Len(response.items)
        IN /\ outcome = "returned"
           /\ result.value.den > 0
           /\ response.status = "failed" => result.value.num = 0
           /\ n = 0 => result.value.num = 0
           /\ (response.status = "ok" /\ n > 0) =>
                 result.value.num * n = result.value.den * UnitsOf(response.items)

\* C12's case: several datapoints, one of them without the statistic, and a
\* mean that is not a whole number.
MetricMeanWithAbsentPoint ==
    /\ call.op = "getMetricValue"
    /\ outcome = "returned"
    /\ Len(telemetry.metrics[call.metric].items) = 3
    /\ Absent \in Range(telemetry.metrics[call.metric].items)
    /\ result.value.num > 0
    /\ result.value.num % result.value.den # 0

\* A cold-start analysis that completed without a telemetry failure.
TrackedWithoutFailure ==
    /\ call.op = "trackColdStarts"
    /\ outcome = "returned"
    /\ telemetry.logs.status = "ok"
    /\ telemetry.metrics["Invocations"].status = "ok"

\* C13: the triggers reported by a cold-start analysis that completed without
\* a telemetry failure are never empty; with no cold starts at all they are a
\* default trigger and none of the specific ones.
TriggersNeverEmpty ==
    TrackedWithoutFailure =>
        /\ result.triggers # <<>>
        /\ result.total = 0 =>
              Range(result.triggers) \cap
                 {"Low traffic periods", "Function updates", "Scaling events"} = {}

\* C14: the "scaling events" trigger is reported if and only if the window
\* contains more than 10 cold starts.
ScalingTriggerIffMoreThanTen ==
    TrackedWithoutFailure =>
        ("Scaling events" \in Range(result.triggers)) <=> (result.total > 10)

MemorySummaryOrdered ==
    (call.op = "analyzeMemoryUsage" /\ outcome = "returned" /\ call.memoryUsage # <<>>) =>
        /\ result.minUsed <= result.avgUsed
        /\ result.avgUsed <= result.peakUsed

\* C20's case: every sample above the allocated size (minUsed is then the
\* allocated size), and a mean that is rounded and lies strictly between.
MemorySummaryAboveAllocation ==
    /\ call.op = "analyzeMemoryUsage"
    /\ outcome = "returned"
    /\ Len(call.memoryUsage) = 3
    /\ \A i \in DOMAIN call.memoryUsage : call.memoryUsage[i] > call.allocatedMemory
    /\ SumSeq(call.memoryUsage) % 3 # 0
    /\ result.minUsed = call.allocatedMemory
    /\ result.minUsed < result.avgUsed
    /\ result.avgUsed < result.peakUsed

\* C15: an analysis run twice with the same arguments, against the same
\* telemetry and at the same clock reading, produces the same result both times
\* (here: analyzeMemoryUtilization and its avgUsed, peakUsed, minUsed and
\* recommended values).
RepeatedAnalysisSameResult ==
    [][(/\ call.op = "analyzeMemoryUtilization"
        /\ outcome # "none"
        /\ outcome' # "none"
        /\ call' = call
        /\ telemetry' = telemetry)
       => (outcome' = outcome /\ result' = result)]_vars

GetFunctionFetches == {i \in DOMAIN fetches : fetches[i].api = "GetFunction"}

\* C16: in compareFunctions the failure of one function's analysis does not
\* affect the others: every listed function has its analysis run, and the call
\* returns the results of the functions whose own telemetry did not fail.
OneFailureLeavesOthers ==
    (/\ call.op = "compareFunctions"
     /\ outcome # "none"
     /\ Len(call.functionNames) > 1
     /\ \E i \in DOMAIN call.functionNames : telemetry.functions[i].config = "failed")
    =>
        /\ Cardinality(GetFunctionFetches) = Len(call.functionNames)
        /\ outcome = "returned"
        /\ \A i \in DOMAIN call.functionNames :
              telemetry.functions[i].config = "ok" =>
                 \E j \in DOMAIN result.functions :
                    result.functions[j].name = call.functionNames[i]

\* C17: every analysis call eventually returns (or is rejected), also when a
\* telemetry request it sent is never answered.
EveryCallReturns ==
    (outcome = "awaiting") ~> (outcome \in {"returned", "rejected"})

\* C18: tool calls for different functions interleaved on the one analyzer
\* share no mutable state: each returns what it returns when run alone on the
\* answers to its own requests, the metrics object of each holds the values of
\* its own answers only, and the fields of the analyzer are never written.
ConcurrentAnalysesIsolated ==
    /\ analyzer = AnalyzerFields
    /\ \A t \in Tasks :
          /\ tasks[t].pc = 6 =>
                tasks[t].result = monitorRealTime(getMetrics(tasks[t].responses))
          /\ \A k \in 1..5 :
                k < tasks[t].pc =>
                   objects[t][MetricField[k]] =
                      getMetricValue(tasks[t].responses[MetricOrder[k]])

\* C18's case: two calls are at an await at the same time, each with part of
\* its metrics object filled, from answers that differ.
ConcurrentCallsOverlap ==
    /\ tasks[1].pc = 5
    /\ tasks[2].pc = 3
    /\ tasks[1].responses["Invocations"] # tasks[2].responses["Invocations"]
    /\ objects[1].invocations # objects[2].invocations

\* C21: the timeout that getRecommendations recommends (config.timeout) is a
\* number of seconds between 30 and 900, for every analysis object the
\* optimizer builds.
TimeoutWithinRange ==
    (call.op = "getRecommendations" /\ outcome = "returned")
        => /\ ~result.config.timeout.nan
           /\ result.config.timeout.value >= 30
           /\ result.config.timeout.value <= 900

\* The category an optimization comes from: cold-start, memory, duration, cost.
CategoryOf(optimization) ==
    CASE optimization.title \in {"Implement Provisioned Concurrency",
                                 "Optimize Deployment Package Size",
                                 "Optimize Initialization Code",
                                 "Consider Runtime Migration"} -> 1
      [] optimization.title \in {"Right-size Memory Allocation",
                                 "Increase Memory Allocation",
                                 "Investigate Memory Leaks"} -> 2
      [] optimization.title \in {"Optimize Code Performance",
                                 "Implement Connection Pooling",
                                 "Optimize External API Calls",
                                 "Optimize Data Processing"} -> 3
      [] OTHER -> 4

ImpactRank(optimization) ==
    CASE optimization.impact = "High" -> 3
      [] optimization.impact = "Medium" -> 2
      [] OTHER -> 1

\* C22: with analysisType 'all' the priority list has at most 5 of the
\* candidates (all of them when there are no more than 5), each once, in
\* non-increasing impact; no candidate left out has a strictly higher impact
\* than a returned one; among equal impacts the category order cold-start,
\* memory, duration, cost is kept.
TopFiveByImpact ==
    (call.op = "getRecommendations" /\ outcome = "returned" /\ call.analysisType = "all")
        => LET candidates == Range(AllCandidates(call.analysis))
               returned == result.priority
               omitted == candidates \ Range(returned)
           IN /\ Len(returned) <= 5
              /\ Len(returned) = Min(5, Cardinality(candidates))
              /\ Range(returned) \subseteq candidates
              /\ Cardinality(Range(returned)) = Len(returned)
              /\ \A i, j \in DOMAIN returned :
                    i < j => /\ ImpactRank(returned[i]) >= ImpactRank(returned[j])
                             /\ ImpactRank(returned[i]) = ImpactRank(returned[j])
                                    => CategoryOf(returned[i]) <= CategoryOf(returned[j])
              /\ \A o \in omitted : \A r \in Range(returned) :
                    ImpactRank(o) <= ImpactRank(r)

\* More than five candidates of both impacts from all four categories, of
\* which a High one of a later category is returned before a Medium one of an
\* earlier category, and something is left out.
TopFiveCutsCandidates ==
    /\ call.op = "getRecommendations" /\ outcome = "returned" /\ call.analysisType = "all"
    /\ Len(AllCandidates(call.analysis)) > 5
    /\ Len(result.priority) = 5
    /\ {CategoryOf(o) : o \in Range(AllCandidates(call.analysis))} = 1..4
    /\ \E i, j \in DOMAIN result.priority :
          /\ i < j
          /\ ImpactRank(result.priority[i]) > ImpactRank(result.priority[j])
          /\ CategoryOf(result.priority[i]) > CategoryOf(result.priority[j])

SumOfSquares(values) == SumSeq([i \in DOMAIN values |-> values[i] * values[i]])

\* C23: calculateVariance returns the population variance of every non-empty
\* list, (sum of squares) / n - mean^2 = (n * sum of squares - sum^2) / n^2,
\* and analyzeMemoryPatterns hands it no empty list.
VarianceIsPopulationVariance ==
    /\ (call.op = "calculateVariance" /\ outcome = "returned")
          => LET n == Len(call.values)
                 S == SumSeq(call.values)
             IN /\ result.value.den > 0
                /\ result.value.num * (n * n)
                      = result.value.den * ((n * SumOfSquares(call.values)) - (S * S))
    /\ (call.op = "analyzeMemoryPatterns" /\ outcome = "returned")
          => /\ \A i \in DOMAIN result.varianceCalls : result.varianceCalls[i] # <<>>
             /\ call.memoryUsage # <<>> => result.varianceCalls = <<call.memoryUsage>>

\* Three samples that are not all equal: their variance is positive and the
\* divisors n and n - 1 give different values.
VarianceOfUnequalSamples ==
    /\ call.op = "calculateVariance" /\ outcome = "returned"
    /\ Len(call.values) = MaxSamples
    /\ Cardinality(Range(call.values)) > 1
    /\ result.value.num > 0

\* C24: the memory recommendation goes the way its reasoning says: not above
\* the allocated memory when utilization is below 50% (over-provisioned), not
\* below it when utilization is above 85% (under-provisioned), and equal to it
\* otherwise.
RecommendationDirectionConsistent ==
    (call.op = "analyzeMemoryUsage" /\ outcome = "returned")
        => /\ result.utilizationPercent < 50 => result.recommended <= result.allocated
           /\ result.utilizationPercent > 85 => result.recommended >= result.allocated
           /\ (result.utilizationPercent >= 50 /\ result.utilizationPercent <= 85)
                 => result.recommended = result.allocated

\* C25: the timeline has exactly 24 periods, each starting where the one
\* before it ends, and its per-period counts add up to the number of events
\* fetched for the window, whatever the clock does in between.
TimelineCountsEveryEvent ==
    (call.op = "createColdStartTimeline" /\ outcome = "returned")
        => LET timeline == result.timeline
               periodMs == parseTimeRange(call.timeRange) \div TimelinePeriods
           IN /\ Len(timeline) = 24
              /\ \A k \in 1..(Len(timeline) - 1) :
                    timeline[k + 1].time = (timeline[k].time + periodMs) % SecondsPerDay
              /\ SumSeq([k \in DOMAIN timeline |-> timeline[k].coldStarts])
                    = Len(call.coldStartEvents)

\* The functions of the listing that pass the runtime filter, in source order.
RECURSIVE PassingFilter(_, _)
PassingFilter(functions, runtime) ==
    IF functions = <<>> THEN <<>>
    ELSE (IF runtime = "" \/ Head(functions).Runtime = runtime
          THEN <<Head(functions)>> ELSE <<>>)
         \o PassingFilter(Tail(functions), runtime)

FetchedWithoutFailure(answer) ==
    /\ answer.config = "ok"
    /\ \A n \in MetricNames : answer.metrics[n].status = "ok"

\* C26: listFunctions with includeMetrics returns one entry per function that
\* passes the runtime filter, in source order; an entry's metrics are null
\* (its analysis failed, and the listing went on) or an object, and a function
\* whose telemetry is fetched without failure has non-null metrics with
\* avgDuration, coldStartRate and errorRate.
ListingHasMetricsUnlessFetchFails ==
    (call.op = "listFunctions" /\ outcome = "returned" /\ call.includeMetrics)
        => LET expected == PassingFilter(telemetry.listing.Functions, call.runtime)
               entries == result.functions
           IN /\ Len(entries) = Len(expected)
              /\ \A i \in DOMAIN entries :
                    /\ entries[i].name = expected[i].FunctionName
                    /\ entries[i].metrics.kind \in {"null", "object"}
                    /\ FetchedWithoutFailure(telemetry.functions[i])
                          => /\ entries[i].metrics.kind = "object"
                             /\ {"avgDuration", "coldStartRate", "errorRate"}
                                   \subseteq DOMAIN entries[i].metrics

\* C27: every tool-call request, an unknown name and a throwing tool included,
\* is answered with a content response and never with the exception; when the
\* tool failed, the response is the single text item
\* 'Error executing <name>: <message>'.
CallToolAlwaysAnswers ==
    (call.op = "CallTool" /\ outcome # "none")
        => /\ outcome = "returned"
           /\ "content" \in DOMAIN result
           /\ call.implementation.outcome = "rejected"
                 => result.content
                      = <<[type |-> "text",
                           text |-> <<"Error executing ", call.name, ": ">>
                                    \o call.implementation.value.error]>>

\* An advertised tool whose method threw has been answered.
ThrowingToolAnswered ==
    /\ call.op = "CallTool" /\ outcome = "returned"
    /\ call.name = "analyze_lambda_performance"
    /\ call.arguments.present
    /\ call.implementation.outcome = "rejected"
    /\ Len(result.content) = 1

\* The method that implements a tool.
OwnImplementation ==
    [analyze_lambda_performance |-> "analyzeLambdaPerformance",
     track_cold_starts |-> "trackColdStarts",
     get_optimization_recommendations |-> "getOptimizationRecommendations",
     compare_lambda_performance |-> "compareLambdaPerformance",
     list_lambda_functions |-> "listLambdaFunctions",
     analyze_memory_utilization |-> "analyzeMemoryUtilization",
     get_cost_analysis |-> "getCostAnalysis",
     monitor_real_time_performance |-> "monitorRealTimePerformance"]

\* C28: the names that ListTools advertises are the names that CallTool
\* dispatches, each to its own implementation: a call of an advertised tool
\* never ends in the 'Unknown tool' error, and a call of any other name does.
AdvertisedToolsAreDispatched ==
    /\ (call.op = "ListTools" /\ outcome = "returned")
          => LET advertised == {result.tools[i].name : i \in DOMAIN result.tools}
             IN /\ advertised = {n \in RequestNames : Dispatch(n) # DefaultCase}
                /\ advertised = {ToolCases[i].label : i \in DOMAIN ToolCases}
                /\ advertised = DOMAIN OwnImplementation
    /\ (call.op = "CallTool" /\ outcome # "none")
          => LET unknown == outcome = "returned"
                            /\ result.content[1].text
                                  = <<"Error executing ", call.name, ": ",
                                      "Unknown tool: ", call.name>>
             IN IF call.name \in Range(AdvertisedTools)
                THEN call.method = OwnImplementation[call.name] /\ ~unknown
                ELSE unknown

\* The last advertised tool has been called and has returned its report.
LastAdvertisedToolReports ==
    /\ call.op = "CallTool" /\ outcome = "returned"
    /\ call.name = AdvertisedTools[Len(AdvertisedTools)]
    /\ call.implementation.outcome = "returned"
    /\ result = call.implementation.value

\* C29: when the analysis of every listed function succeeds (of none, for the
\* empty list), compareFunctions returns, and the functions of its result are
\* the listed names, one entry each, in input order.
CompareReturnsEntryPerName ==
    (/\ call.op = "compareFunctions"
     /\ outcome # "none"
     /\ \A i \in DOMAIN call.functionNames :
           AnalyzeFunctionError(telemetry.functions[i].config) = "none")
        => /\ outcome = "returned"
           /\ Len(result.functions) = Len(call.functionNames)
           /\ \A i \in DOMAIN call.functionNames :
                 result.functions[i].name = call.functionNames[i]

\* The duration of comparison i is at most that of comparison j.
DurationAtMost(cs, i, j) ==
    cs[i].values.duration.num * cs[j].values.duration.den
        <= cs[j].values.duration.num * cs[i].values.duration.den

\* C30: for a non-empty list, the function named as having the best average
\* duration is the first in input order whose duration is the minimum of the
\* list, and the one named as having the highest cold start rate is the first
\* whose cold-start rate is the maximum.
InsightsNameFirstExtremes ==
    (call.op = "generateComparisonInsights" /\ outcome = "returned")
        => LET cs == call.comparisons
               fastest == {i \in DOMAIN cs : \A j \in DOMAIN cs : DurationAtMost(cs, i, j)}
               coldest == {i \in DOMAIN cs :
                             \A j \in DOMAIN cs :
                                cs[i].values.coldStarts >= cs[j].values.coldStarts}
               first(S) == CHOOSE i \in S : \A j \in S : i <= j
           IN /\ Len(result.insights) = 2
              /\ result.insights[1].insight = "best average duration"
              /\ result.insights[1].name = cs[first(fastest)].name
              /\ result.insights[1].value = cs[first(fastest)].values.duration
              /\ result.insights[2].insight = "highest cold start rate"
              /\ result.insights[2].name = cs[first(coldest)].name
              /\ result.insights[2].value = cs[first(coldest)].values.coldStarts

\* Three functions of which the last two tie for the minimum duration and the
\* first two tie for the maximum cold-start rate.
InsightsOnTies ==
    /\ call.op = "generateComparisonInsights" /\ outcome = "returned"
    /\ Len(call.comparisons) = 3
    /\ call.comparisons[2].values.duration = call.comparisons[3].values.duration
    /\ LessThan(call.comparisons[2].values.duration, call.comparisons[1].values.duration)
    /\ call.comparisons[1].values.coldStarts = call.comparisons[2].values.coldStarts
    /\ call.comparisons[1].values.coldStarts > call.comparisons[3].values.coldStarts
    /\ result.insights[1].name = call.comparisons[2].name
    /\ result.insights[2].name = call.comparisons[1].name

====
